---- MODULE Spec2Model ----
(***************************************************************************)
(* Recursive proof composition of risc0 (zkvm/src/host/recursion/prove):   *)
(* lift, join, resolve and identity_p254, each driving one single-use      *)
(* Prover: build the input tape, run the opaque recursion program, decode  *)
(* the claim it wrote, merge it with the claim computed locally, and       *)
(* package a SuccinctReceipt.                                              *)
(***************************************************************************)
EXTENDS Integers, Sequences, FiniteSets, TLC

(***************************************************************************)
(* Bounds of the model.                                                    *)
(***************************************************************************)
\* number of segments of the session (states S0 .. S_NSeg)
NSeg == 3
\* longest assumptions list of a given conditional receipt
MaxAssumptions == 2

(***************************************************************************)
(* Digests and MaybePruned.  A digest is a tagged tuple built from the     *)
(* digests of the parts: equal digests have equal content (no collisions). *)
(***************************************************************************)
ZERO == <<"zero">>

Value(x) == [tag |-> "Value", v |-> x]

Pruned(x) == [tag |-> "Pruned", d |-> x]

IsValue(m) == m.tag = "Value"

SysDigest(s) == <<"sys", s>>

MPSysDigest(m) == IF IsValue(m) THEN SysDigest(m.v) ELSE m.d

BytesDigest(x) == <<"bytes", x>>

MPBytesDigest(m) == IF IsValue(m) THEN BytesDigest(m.v) ELSE m.d

AssumptionDigest(x) == <<"assumption", x.claim, x.control_root>>

MPAssumptionDigest(m) == IF IsValue(m) THEN AssumptionDigest(m.v) ELSE m.d

RECURSIVE ListDigest(_)
ListDigest(l) ==
    IF l = <<>> THEN <<"nil">>
    ELSE <<"cons", MPAssumptionDigest(Head(l)), ListDigest(Tail(l))>>

MPListDigest(m) == IF IsValue(m) THEN ListDigest(m.v) ELSE m.d

OutputDigest(o) == <<"output", MPBytesDigest(o.journal), MPListDigest(o.assumptions)>>

\* Option<Output>: None or Some(output)
NoOutput == [some |-> FALSE]

SomeOutput(o) == [some |-> TRUE, o |-> o]

OptOutputDigest(oo) == IF oo.some THEN OutputDigest(oo.o) ELSE ZERO

MPOptOutputDigest(m) == IF IsValue(m) THEN OptOutputDigest(m.v) ELSE m.d

ClaimDigest(c) ==
    <<"claim", MPBytesDigest(c.input), MPSysDigest(c.pre), MPSysDigest(c.post),
      c.exit_code, MPOptOutputDigest(c.output)>>

MPClaimDigest(m) == IF IsValue(m) THEN ClaimDigest(m.v) ELSE m.d

(***************************************************************************)
(* merge: reconcile a claim with an independently obtained one.            *)
(***************************************************************************)
\* ReceiptClaim::merge on two materialized claims
ClaimMergeOK(c1, c2) == c1 = c2

\* MaybePruned<ReceiptClaim>::merge
MPMergeOK(m1, m2) ==
    IF IsValue(m1) /\ IsValue(m2) THEN ClaimMergeOK(m1.v, m2.v)
    ELSE MPClaimDigest(m1) = MPClaimDigest(m2)

MPMerge(m1, m2) ==
    IF IsValue(m1) THEN m1 ELSE m2

(***************************************************************************)
(* encode / decode of a ReceiptClaim to and from the word stream.          *)
(***************************************************************************)
\* length of an encoded claim
ClaimWords == 5

Encode(c) == <<c.input, c.pre, c.post, c.exit_code, c.output>>

DecodeOK(s) == Len(s) >= ClaimWords

Decode(s) ==
    [pre |-> s[2], post |-> s[3], exit_code |-> s[4], input |-> s[1], output |-> s[5]]

(***************************************************************************)
(* Control-ID registry: MerkleGroup and MerkleProof.                       *)
(***************************************************************************)
HashPair(x, y) == <<"h", x, y>>

RECURSIVE DepthFor(_)
DepthFor(n) == IF n <= 1 THEN 0 ELSE 1 + DepthFor((n + 1) \div 2)

RECURSIVE Pow2(_)
Pow2(n) == IF n = 0 THEN 1 ELSE 2 * Pow2(n - 1)

LeafOrEmpty(ids, i) == IF i + 1 <= Len(ids) THEN ids[i + 1] ELSE ZERO

\* root of the leaves start .. end-1 (end - start a power of two)
RECURSIVE RangeRoot(_, _, _)
RangeRoot(ids, start, end) ==
    IF start + 1 = end THEN LeafOrEmpty(ids, start)
    ELSE LET mid == (start + end) \div 2
         IN  HashPair(RangeRoot(ids, start, mid), RangeRoot(ids, mid, end))

CalcRoot(ids) == RangeRoot(ids, 0, Pow2(DepthFor(Len(ids))))

IsMember(ids, id) == \E i \in 1..Len(ids) : ids[i] = id

IndexOf(ids, id) == (CHOOSE i \in 1..Len(ids) : ids[i] = id /\ \A j \in 1..(i - 1) : ids[j] # id) - 1

\* sibling digests from the leaf level upwards
RECURSIVE Siblings(_, _, _)
Siblings(ids, index, level) ==
    IF level = DepthFor(Len(ids)) THEN <<>>
    ELSE LET width == Pow2(level)
             pos   == index \div width
             sib   == IF pos % 2 = 0 THEN pos + 1 ELSE pos - 1
         IN  <<RangeRoot(ids, sib * width, (sib + 1) * width)>>
                 \o Siblings(ids, index, level + 1)

GetProof(ids, id) ==
    [index |-> IndexOf(ids, id), digests |-> Siblings(ids, IndexOf(ids, id), 0)]

\* a fold that puts every sibling on the right, whatever the index
RECURSIVE FoldRootLeftOnly(_, _, _)
FoldRootLeftOnly(cur, index, digests) ==
    IF digests = <<>> THEN cur
    ELSE FoldRootLeftOnly(HashPair(cur, Head(digests)), index \div 2, Tail(digests))

RECURSIVE FoldRoot(_, _, _)
FoldRoot(cur, index, digests) ==
    IF digests = <<>> THEN cur
    ELSE FoldRoot(IF index % 2 = 0 THEN HashPair(cur, Head(digests))
                                   ELSE HashPair(Head(digests), cur),
                  index \div 2, Tail(digests))

\* a root recomputed as if the leaf were the first of the group
ProofRootNoIndex(proof, leaf) == FoldRoot(leaf, 0, proof.digests)

ProofRoot(proof, leaf) == FoldRoot(leaf, proof.index, proof.digests)

\* SuccinctReceipt::control_root
ControlRoot(r) == ProofRoot(r.control_inclusion_proof, r.control_id)

(***************************************************************************)
(* Recursion program catalog and the default prover options.               *)
(***************************************************************************)
MIN_CYCLES_PO2 == 13

RvId(po2) == <<"cid", "rv32im", po2>>

POSEIDON2_CONTROL_IDS == <<RvId(MIN_CYCLES_PO2), RvId(MIN_CYCLES_PO2 + 1)>>

BN254_IDENTITY_CONTROL_ID == <<"cid", "identity", "poseidon_254">>

\* po2 values that have a lift program
LiftPo2s == {MIN_CYCLES_PO2 + i - 1 : i \in 1..Len(POSEIDON2_CONTROL_IDS)}

\* zkr::lift, zkr::join, zkr::resolve, zkr::identity: the program's control id
ZkrLift(po2, hashfn) == <<"cid", "lift", po2>>

ZkrJoin(hashfn) == <<"cid", "join", hashfn>>

ZkrResolve(hashfn) == <<"cid", "resolve", hashfn>>

ZkrIdentity(hashfn) == <<"cid", "identity", hashfn>>
ZkrTestRecursionCircuit(hashfn) == <<"cid", "test_recursion_circuit", hashfn>>

\* ProverOpts::succinct(): hashfn and control_ids
SuccinctHashfn == "poseidon2"

AllowedIds ==
    POSEIDON2_CONTROL_IDS
        \o <<ZkrLift(MIN_CYCLES_PO2, SuccinctHashfn), ZkrLift(MIN_CYCLES_PO2 + 1, SuccinctHashfn),
             ZkrJoin(SuccinctHashfn), ZkrResolve(SuccinctHashfn), ZkrIdentity(SuccinctHashfn)>>

\* SuccinctReceiptVerifierParameters { control_root, inner_control_root, .. }.digest()
ParamsDigest(control_root, inner) == <<"params", control_root, inner>>

NoInner == <<"none">>

DefaultParamsDigest == ParamsDigest(CalcRoot(AllowedIds), NoInner)

(***************************************************************************)
(* Tape-building primitives of Prover.                                     *)
(***************************************************************************)
\* add_input
AddInput(tape, words) == Append(tape, <<"words", words>>)

\* add_input_digest
AddInputDigest(tape, digest, kind) == Append(tape, <<"digest", kind, digest>>)

RECURSIVE AddDigests(_, _)
AddDigests(tape, digests) ==
    IF digests = <<>> THEN tape
    ELSE AddDigests(AddInputDigest(tape, Head(digests), "Poseidon2"), Tail(digests))

\* add_seal writing the Merkle index ahead of the seal
AddSealIndexFirst(tape, seal, control_inclusion_proof) ==
    AddDigests(AddInput(AddInput(tape, <<control_inclusion_proof.index>>), seal),
               control_inclusion_proof.digests)

\* add_seal: seal, Merkle index, sibling digests
AddSeal(tape, seal, control_inclusion_proof) ==
    AddDigests(AddInput(AddInput(tape, seal), <<control_inclusion_proof.index>>),
               control_inclusion_proof.digests)

\* add_segment_receipt leaving the claim out, as add_assumption_receipt does
AddSegmentReceiptNoClaim(tape, r) ==
    AddSeal(tape, r.seal, r.control_inclusion_proof)

\* add_segment_receipt (the receipt's claim is materialized)
AddSegmentReceipt(tape, r) ==
    AddInput(AddSeal(tape, r.seal, r.control_inclusion_proof), Encode(r.claim.v))

\* add_assumption_receipt telling the program that the control root is zero, whatever it is
AddAssumptionReceiptZeroRoot(tape, assumption, r) ==
    AddInput(AddSeal(tape, r.seal, r.control_inclusion_proof), <<1>>)

\* add_assumption_receipt
AddAssumptionReceipt(tape, assumption, r) ==
    AddInput(AddSeal(tape, r.seal, r.control_inclusion_proof),
             <<IF assumption.control_root = ZERO THEN 1 ELSE 0>>)

(***************************************************************************)
(* Prover::new_lift, new_join, new_resolve, new_identity.  Each yields the *)
(* outcome of the constructor: the tape appended so far, the control id of *)
(* the selected program, and the error of the first failed step if any.    *)
(***************************************************************************)
NoId == <<"cid", "none">>

Built(t, id) == [st |-> "TapeBuilt", err |-> "none", tape |-> t, control_id |-> id]

Fail(e, t, id) == [st |-> "Failed", err |-> e, tape |-> t, control_id |-> id]

Panic(t, id) == [st |-> "Panicked", err |-> "panic", tape |-> t, control_id |-> id]

\* po2 stored in the segment seal after the rv32im output region
SealPo2(seal) == seal[3]

\* new_lift keeping the control id of the rv32im circuit as the Prover's control id
NewLiftInnerId(segment) ==
    IF segment.hashfn # "poseidon2" THEN Fail("ConfigurationError", <<>>, NoId)
    ELSE LET po2 == SealPo2(segment.seal)
         IN
         IF po2 \notin LiftPo2s THEN Fail("ProgramNotFound", <<>>, NoId)
         ELSE LET control_id == ZkrLift(po2, SuccinctHashfn)
                  tape1      == AddInputDigest(<<>>, CalcRoot(AllowedIds), "Poseidon2")
                  which      == po2 - MIN_CYCLES_PO2
              IN
              IF which < 0 \/ which >= Len(POSEIDON2_CONTROL_IDS) THEN Panic(tape1, control_id)
              ELSE LET inner_control_id == POSEIDON2_CONTROL_IDS[which + 1]
                   IN
                   IF ~IsMember(AllowedIds, inner_control_id)
                   THEN Fail("InclusionProofError", tape1, control_id)
                   ELSE Built(AddSeal(tape1, segment.seal,
                                      GetProof(AllowedIds, inner_control_id)),
                              inner_control_id)

\* new_lift indexing the control-id table before the lift program is looked up
NewLiftIndexFirst(segment, control_ids) ==
    IF segment.hashfn # "poseidon2" THEN Fail("ConfigurationError", <<>>, NoId)
    ELSE LET po2        == SealPo2(segment.seal)
             control_id == ZkrLift(po2, SuccinctHashfn)
             tape1      == AddInputDigest(<<>>, CalcRoot(control_ids), "Poseidon2")
             which      == po2 - MIN_CYCLES_PO2
         IN
         IF which < 0 \/ which >= Len(POSEIDON2_CONTROL_IDS) THEN Panic(tape1, control_id)
         ELSE LET inner_control_id == POSEIDON2_CONTROL_IDS[which + 1]
              IN
              IF ~IsMember(control_ids, inner_control_id)
              THEN Fail("InclusionProofError", tape1, control_id)
              ELSE Built(AddSeal(tape1, segment.seal,
                                 GetProof(control_ids, inner_control_id)), control_id)

\* new_lift(segment, opts), opts.control_ids being control_ids
NewLiftOpts(segment, control_ids) ==
    IF segment.hashfn # "poseidon2" THEN Fail("ConfigurationError", <<>>, NoId)
    ELSE LET po2 == SealPo2(segment.seal)
         IN
         IF po2 \notin LiftPo2s THEN Fail("ProgramNotFound", <<>>, NoId)
         ELSE LET control_id == ZkrLift(po2, SuccinctHashfn)
                  tape1      == AddInputDigest(<<>>, CalcRoot(control_ids), "Poseidon2")
                  which      == po2 - MIN_CYCLES_PO2
              IN
              IF which < 0 \/ which >= Len(POSEIDON2_CONTROL_IDS) THEN Panic(tape1, control_id)
              ELSE LET inner_control_id == POSEIDON2_CONTROL_IDS[which + 1]
                   IN
                   IF ~IsMember(control_ids, inner_control_id)
                   THEN Fail("InclusionProofError", tape1, control_id)
                   ELSE Built(AddSeal(tape1, segment.seal,
                                      GetProof(control_ids, inner_control_id)), control_id)

\* lift's call: new_lift with ProverOpts::succinct()
NewLift(segment) == NewLiftOpts(segment, AllowedIds)

\* the tape of join: the control root, then a and b
JoinTape(ra, rb, control_id) ==
    LET tape1 == AddInputDigest(<<>>, ControlRoot(ra), "Poseidon2")
    IN
    IF ~IsValue(ra.claim)
    THEN Fail("PrunedFieldError",
              AddSeal(tape1, ra.seal, ra.control_inclusion_proof), control_id)
    ELSE LET tape2 == AddSegmentReceipt(tape1, ra)
         IN
         IF ~IsValue(rb.claim)
         THEN Fail("PrunedFieldError",
                   AddSeal(tape2, rb.seal, rb.control_inclusion_proof), control_id)
         ELSE Built(AddSegmentReceipt(tape2, rb), control_id)

\* new_join without the comparison of the two control roots
NewJoinNoRootCheck(ra, rb) ==
    IF ra.hashfn # "poseidon2" THEN Fail("ConfigurationError", <<>>, NoId)
    ELSE IF rb.hashfn # "poseidon2" THEN Fail("ConfigurationError", <<>>, NoId)
    ELSE JoinTape(ra, rb, ZkrJoin(SuccinctHashfn))

\* new_join without the hashfn check of b
NewJoinHashfnOfA(ra, rb) ==
    IF ra.hashfn # "poseidon2" THEN Fail("ConfigurationError", <<>>, NoId)
    ELSE IF ControlRoot(ra) # ControlRoot(rb)
         THEN Fail("RootMismatch", <<>>, ZkrJoin(SuccinctHashfn))
         ELSE JoinTape(ra, rb, ZkrJoin(SuccinctHashfn))

NewJoin(ra, rb) ==
    IF ra.hashfn # "poseidon2" THEN Fail("ConfigurationError", <<>>, NoId)
    ELSE IF rb.hashfn # "poseidon2" THEN Fail("ConfigurationError", <<>>, NoId)
    ELSE IF ControlRoot(ra) # ControlRoot(rb)
         THEN Fail("RootMismatch", <<>>, ZkrJoin(SuccinctHashfn))
         ELSE JoinTape(ra, rb, ZkrJoin(SuccinctHashfn))

\* AssumptionsList::resolve: drop the first element when its digest is head_digest
ListResolveOK(l, head_digest) == l # <<>> /\ MPAssumptionDigest(Head(l)) = head_digest

ListResolve(l, head_digest) == Tail(l)

\* the assumption receipt proves the claim the head assumption names
HeadClaimMatchesValueOnly(head, assum) ==
    ~IsValue(assum.claim) \/ head.claim = MPClaimDigest(assum.claim)

HeadClaimMatches(head, assum) == head.claim = MPClaimDigest(assum.claim)

\* the control root the assumption receipt must have
ExpectedRootOfCond(head, cond) == ControlRoot(cond)

ExpectedRoot(head, cond) ==
    IF head.control_root = ZERO THEN ControlRoot(cond) ELSE head.control_root

\* new_resolve appending the assumption receipt before it is compared with the head
ResolveTapeEager(cond, assum, control_id) ==
    LET tape1 == AddInputDigest(<<>>, ControlRoot(cond), "Poseidon2")
    IN
    IF ~IsValue(cond.claim)
    THEN Fail("PrunedFieldError",
              AddSeal(tape1, cond.seal, cond.control_inclusion_proof), control_id)
    ELSE LET tape2 == AddSegmentReceipt(tape1, cond)
         IN
         IF ~IsValue(cond.claim.v.output) THEN Fail("PrunedFieldError", tape2, control_id)
         ELSE IF ~cond.claim.v.output.v.some THEN Fail("EmptyOutputError", tape2, control_id)
         ELSE LET output == cond.claim.v.output.v.o
              IN
              IF ~IsValue(output.assumptions)
              THEN Fail("PrunedFieldError", tape2, control_id)
              ELSE LET assumptions == output.assumptions.v
                   IN
                   IF assumptions = <<>>
                   THEN Fail("EmptyAssumptionError", tape2, control_id)
                   ELSE IF ~IsValue(Head(assumptions))
                   THEN Fail("PrunedFieldError", tape2, control_id)
                   ELSE LET head == Head(assumptions).v
                            tape3 == AddAssumptionReceipt(tape2, head, assum)
                        IN
                        IF ~HeadClaimMatches(head, assum)
                        THEN Fail("AssumptionMismatchError", tape3, control_id)
                        ELSE IF ExpectedRoot(head, cond) # ControlRoot(assum)
                        THEN Fail("AssumptionMismatchError", tape3, control_id)
                        ELSE IF ~ListResolveOK(assumptions, AssumptionDigest(head))
                        THEN Fail("AssumptionMismatchError", tape3, control_id)
                        ELSE LET assumptions_tail ==
                                     ListResolve(assumptions, AssumptionDigest(head))
                                 tape4 == AddInputDigest(tape3,
                                              ListDigest(assumptions_tail), "Sha256")
                             IN  Built(AddInputDigest(tape4,
                                           MPBytesDigest(output.journal), "Sha256"),
                                       control_id)

\* new_resolve after the hashfn checks: the tape and the checks made while it is built
ResolveTape(cond, assum, control_id) ==
    LET tape1 == AddInputDigest(<<>>, ControlRoot(cond), "Poseidon2")
    IN
    IF ~IsValue(cond.claim)
    THEN Fail("PrunedFieldError",
              AddSeal(tape1, cond.seal, cond.control_inclusion_proof), control_id)
    ELSE LET tape2 == AddSegmentReceipt(tape1, cond)
         IN
         IF ~IsValue(cond.claim.v.output) THEN Fail("PrunedFieldError", tape2, control_id)
         ELSE IF ~cond.claim.v.output.v.some THEN Fail("EmptyOutputError", tape2, control_id)
         ELSE LET output == cond.claim.v.output.v.o
              IN
              IF ~IsValue(output.assumptions)
              THEN Fail("PrunedFieldError", tape2, control_id)
              ELSE LET assumptions == output.assumptions.v
                   IN
                   IF assumptions = <<>>
                   THEN Fail("EmptyAssumptionError", tape2, control_id)
                   ELSE IF ~IsValue(Head(assumptions))
                   THEN Fail("PrunedFieldError", tape2, control_id)
                   ELSE LET head == Head(assumptions).v
                        IN
                        IF ~HeadClaimMatches(head, assum)
                        THEN Fail("AssumptionMismatchError", tape2, control_id)
                        ELSE IF ExpectedRoot(head, cond) # ControlRoot(assum)
                        THEN Fail("AssumptionMismatchError", tape2, control_id)
                        ELSE IF ~ListResolveOK(assumptions, AssumptionDigest(head))
                        THEN Fail("AssumptionMismatchError", tape2, control_id)
                        ELSE LET assumptions_tail ==
                                     ListResolve(assumptions, AssumptionDigest(head))
                                 tape3 == AddAssumptionReceipt(tape2, head, assum)
                                 tape4 == AddInputDigest(tape3,
                                              ListDigest(assumptions_tail), "Sha256")
                             IN  Built(AddInputDigest(tape4,
                                           MPBytesDigest(output.journal), "Sha256"),
                                       control_id)

\* new_resolve without the hashfn check of the assumption receipt
NewResolveNoAssumHashfn(cond, assum) ==
    IF cond.hashfn # "poseidon2" THEN Fail("ConfigurationError", <<>>, NoId)
    ELSE ResolveTape(cond, assum, ZkrResolve(SuccinctHashfn))

NewResolve(cond, assum) ==
    IF cond.hashfn # "poseidon2" THEN Fail("ConfigurationError", <<>>, NoId)
    ELSE IF assum.hashfn # "poseidon2" THEN Fail("ConfigurationError", <<>>, NoId)
    ELSE ResolveTape(cond, assum, ZkrResolve(SuccinctHashfn))

\* control ids the catalog may hold for the identity program: the one the
\* control-id constants were generated from, or the one of a rebuilt program
ZkrIdentityBuilds(hashfn) == {ZkrIdentity(hashfn), <<"cid", "identity", hashfn, "rebuilt">>}

\* new_identity putting a receipt with a pruned claim on the tape without its claim
NewIdentitySealOnly(ra, control_id) ==
    IF ra.hashfn # "poseidon2" THEN Fail("ConfigurationError", <<>>, NoId)
    ELSE LET tape1 == AddInputDigest(<<>>, ControlRoot(ra), "Poseidon2")
         IN
         IF ~IsValue(ra.claim)
         THEN Built(AddSeal(tape1, ra.seal, ra.control_inclusion_proof), control_id)
         ELSE Built(AddSegmentReceipt(tape1, ra), control_id)

\* new_identity without the hashfn check
NewIdentityAnyHashfn(ra, control_id) ==
    LET tape1 == AddInputDigest(<<>>, ControlRoot(ra), "Poseidon2")
    IN
    IF ~IsValue(ra.claim)
    THEN Fail("PrunedFieldError",
              AddSeal(tape1, ra.seal, ra.control_inclusion_proof), control_id)
    ELSE Built(AddSegmentReceipt(tape1, ra), control_id)

\* control_id is the control id zkr::identity(&opts.hashfn) returned
NewIdentity(ra, control_id) ==
    IF ra.hashfn # "poseidon2" THEN Fail("ConfigurationError", <<>>, NoId)
    ELSE LET tape1 == AddInputDigest(<<>>, ControlRoot(ra), "Poseidon2")
         IN
         IF ~IsValue(ra.claim)
         THEN Fail("PrunedFieldError",
                   AddSeal(tape1, ra.seal, ra.control_inclusion_proof), control_id)
         ELSE Built(AddSegmentReceipt(tape1, ra), control_id)

\* (test builds) the two digests become the tape of the test program
NewTestRecursionCircuit(digests, hashfn) ==
    Built(AddDigests(<<>>, digests), ZkrTestRecursionCircuit(hashfn))

(***************************************************************************)
(* The claims the operations compute locally.                              *)
(***************************************************************************)
\* join taking the post state of a instead of b
JoinClaimPostOfA(ca, cb) ==
    [pre |-> ca.pre, post |-> ca.post, exit_code |-> cb.exit_code,
     input |-> ca.input, output |-> cb.output]

\* join taking the pre state of b instead of a
JoinClaimPreOfB(ca, cb) ==
    [pre |-> cb.pre, post |-> cb.post, exit_code |-> cb.exit_code,
     input |-> ca.input, output |-> cb.output]

\* join: the sequential composition of a's and b's claims (both materialized)
JoinClaim(ca, cb) ==
    [pre |-> ca.pre, post |-> cb.post, exit_code |-> cb.exit_code,
     input |-> ca.input, output |-> cb.output]

\* resolve: the copy of the conditional claim with the first assumption drained.
\* The outcome is the resolved claim, an error, or a panic of drain(..1).
Resolved(c) == [st |-> "ok", err |-> "none", claim |-> c]

ResolvedFail(e) == [st |-> "Failed", err |-> e, claim |-> [none |-> TRUE]]

ResolvedPanic == [st |-> "Panicked", err |-> "panic", claim |-> [none |-> TRUE]]

\* resolve draining the last assumption instead of the first
ResolvedClaimDropLast(cond) ==
    IF ~IsValue(cond.claim) THEN ResolvedFail("PrunedFieldError")
    ELSE IF ~IsValue(cond.claim.v.output) THEN ResolvedFail("PrunedFieldError")
    ELSE IF ~cond.claim.v.output.v.some THEN ResolvedFail("EmptyOutputError")
    ELSE IF ~IsValue(cond.claim.v.output.v.o.assumptions) THEN ResolvedFail("PrunedFieldError")
    ELSE LET list == cond.claim.v.output.v.o.assumptions.v
         IN
         IF Len(list) < 1 THEN ResolvedPanic
         ELSE Resolved([cond.claim.v EXCEPT
                            !.output = Value(SomeOutput(
                                [journal     |-> cond.claim.v.output.v.o.journal,
                                 assumptions |-> Value(SubSeq(list, 1, Len(list) - 1))]))])

\* resolve draining every assumption instead of the first
ResolvedClaimDropAll(cond) ==
    IF ~IsValue(cond.claim) THEN ResolvedFail("PrunedFieldError")
    ELSE IF ~IsValue(cond.claim.v.output) THEN ResolvedFail("PrunedFieldError")
    ELSE IF ~cond.claim.v.output.v.some THEN ResolvedFail("EmptyOutputError")
    ELSE IF ~IsValue(cond.claim.v.output.v.o.assumptions) THEN ResolvedFail("PrunedFieldError")
    ELSE LET list == cond.claim.v.output.v.o.assumptions.v
         IN
         IF Len(list) < 1 THEN ResolvedPanic
         ELSE Resolved([cond.claim.v EXCEPT
                            !.output = Value(SomeOutput(
                                [journal     |-> cond.claim.v.output.v.o.journal,
                                 assumptions |-> Value(<<>>)]))])

\* resolve: the resolved claim computed before the prover is built
ResolvedClaim(cond) ==
    IF ~IsValue(cond.claim) THEN ResolvedFail("PrunedFieldError")
    ELSE IF ~IsValue(cond.claim.v.output) THEN ResolvedFail("PrunedFieldError")
    ELSE IF ~cond.claim.v.output.v.some THEN ResolvedFail("EmptyOutputError")
    ELSE IF ~IsValue(cond.claim.v.output.v.o.assumptions) THEN ResolvedFail("PrunedFieldError")
    ELSE LET list == cond.claim.v.output.v.o.assumptions.v
         IN
         IF Len(list) < 1 THEN ResolvedPanic
         ELSE Resolved([cond.claim.v EXCEPT
                            !.output = Value(SomeOutput(
                                [journal     |-> cond.claim.v.output.v.o.journal,
                                 assumptions |-> Value(Tail(list))]))])

(***************************************************************************)
(* Receipts handed to the operations.                                      *)
(***************************************************************************)
None == [none |-> TRUE]

DefaultRoot == CalcRoot(AllowedIds)

\* a second control-id group, giving receipts another control root
AltIds == <<ZkrJoin(SuccinctHashfn), ZkrResolve(SuccinctHashfn)>>

AltRoot == CalcRoot(AltIds)

\* claims of two receipts a guest verified with env::verify
XClaim ==
    [pre |-> Value(0), post |-> Value(0), exit_code |-> "Halted",
     input |-> Value("x"), output |-> Value(NoOutput)]

YClaim ==
    [pre |-> Value(0), post |-> Value(0), exit_code |-> "Halted",
     input |-> Value("y"), output |-> Value(NoOutput)]

AX0 == [claim |-> ClaimDigest(XClaim), control_root |-> ZERO]

AXAlt == [claim |-> ClaimDigest(XClaim), control_root |-> AltRoot]

AY == [claim |-> ClaimDigest(YClaim), control_root |-> DefaultRoot]

\* the assumptions the session's guest made, in order
SessionList == [i \in 1..MaxAssumptions |-> IF i % 2 = 1 THEN Value(AX0) ELSE Value(AY)]

\* the claim of the span of segments i .. j-1 of the session
SpanClaim(i, j) ==
    [pre |-> Value(i), post |-> Value(j),
     exit_code |-> IF j = NSeg THEN "Halted" ELSE "SystemSplit",
     input |-> Value("in"),
     output |-> IF j = NSeg
                THEN Value(SomeOutput([journal |-> Value("journal"),
                                       assumptions |-> Value(SessionList)]))
                ELSE Value(NoOutput)]

CondClaim(list) ==
    [SpanClaim(0, NSeg) EXCEPT
        !.output = Value(SomeOutput([journal |-> Value("journal"),
                                     assumptions |-> Value(list)]))]

ListElems == {Value(AX0), Value(AXAlt), Value(AY), Pruned(AssumptionDigest(AX0))}

Lists == UNION {[1..n -> ListElems] : n \in 0..MaxAssumptions}

GivenClaims ==
    {Value(SpanClaim(i, j)) : i \in 0..(NSeg - 1), j \in 1..NSeg}
        \cup {Value(CondClaim(l)) : l \in Lists}
        \cup {Value(XClaim), Value(YClaim), Pruned(ClaimDigest(XClaim)),
              Pruned(ClaimDigest(CondClaim(<<Value(AX0)>>))),
              Value([CondClaim(<<>>) EXCEPT !.output = Pruned(ZERO)]),
              Value([CondClaim(<<>>) EXCEPT
                        !.output = Value(SomeOutput(
                            [journal |-> Value("journal"),
                             assumptions |-> Pruned(ListDigest(<<Value(AX0)>>))]))])}

MkReceipt(hashfn, ids, claim) ==
    [seal |-> <<"seal", "given">>, hashfn |-> hashfn,
     control_id |-> ZkrJoin(SuccinctHashfn),
     control_inclusion_proof |-> GetProof(ids, ZkrJoin(SuccinctHashfn)),
     claim |-> claim,
     verifier_parameters |-> ParamsDigest(CalcRoot(ids), NoInner)]

Receipts ==
    {MkReceipt(h, ids, c) : h \in {"poseidon2", "sha-256"}, ids \in {AllowedIds, AltIds},
                            c \in GivenClaims}

MkSegment(i, hashfn, po2) ==
    [seal |-> <<"segseal", i, po2>>, hashfn |-> hashfn, claim |-> SpanClaim(i, i + 1)]

SegmentReceipts ==
    {MkSegment(i, h, p) : i \in 0..(NSeg - 1), h \in {"poseidon2", "sha-256"},
                          p \in (MIN_CYCLES_PO2 - 1)..(MIN_CYCLES_PO2 + 2)}

\* the receipts of one session: its segments and the proofs of its assumptions
SessionSegments == {MkSegment(i, "poseidon2", MIN_CYCLES_PO2) : i \in 0..(NSeg - 1)}

ProofOfX == MkReceipt("poseidon2", AllowedIds, Value(XClaim))

ProofOfY == MkReceipt("poseidon2", AllowedIds, Pruned(ClaimDigest(YClaim)))

(***************************************************************************)
(* State: one operation in flight (its Prover and local variables) and the *)
(* caller's work list of receipts of consecutive spans of the session.     *)
(***************************************************************************)
VARIABLES op, a, b, pc, err, tape, control_id, expected, rcpt, decoded, merged,
          result, runs, work, next, app, provers

vars == <<op, a, b, pc, err, tape, control_id, expected, rcpt, decoded, merged,
          result, runs, work, next, app, provers>>

opvars == <<op, a, b, pc, err, tape, control_id, expected, rcpt, decoded, merged,
            result, runs, work, next>>

\* no operation in flight
NoOperation ==
    /\ op = "none" /\ a = None /\ b = None
    /\ pc = "Idle" /\ err = "none"
    /\ tape = <<>> /\ control_id = NoId
    /\ expected = None /\ rcpt = None /\ decoded = None /\ merged = None
    /\ result = None /\ runs = 0
    /\ work = <<>> /\ next = 0

Init ==
    /\ NoOperation
    /\ app = None /\ provers = <<>>

\* the constructor's outcome becomes the state of the operation
Constructed(n) ==
    /\ pc' = n.st /\ err' = n.err /\ tape' = n.tape /\ control_id' = n.control_id
    /\ UNCHANGED <<rcpt, decoded, merged, result, runs, work, next, app, provers>>

\* lift up to the return of Prover::new_lift
Lift(segment) ==
    /\ pc = "Idle"
    /\ op' = "lift" /\ a' = segment /\ b' = None
    /\ expected' = None
    /\ Constructed(NewLift(segment))

\* join up to the return of Prover::new_join
Join(ra, rb) ==
    /\ pc = "Idle"
    /\ op' = "join" /\ a' = ra /\ b' = rb
    /\ expected' = None
    /\ Constructed(NewJoin(ra, rb))

\* resolve draining the head from the conditional receipt itself, not from a clone
ResolveInPlace(cond, assum) ==
    /\ pc = "Idle"
    /\ op' = "resolve" /\ b' = assum
    /\ LET rc == ResolvedClaim(cond)
       IN  /\ expected' = rc.claim
           /\ a' = IF rc.st = "ok" THEN [cond EXCEPT !.claim = Value(rc.claim)] ELSE cond
           /\ IF rc.st = "ok" THEN Constructed(NewResolve(cond, assum))
              ELSE Constructed([st |-> rc.st, err |-> rc.err, tape |-> <<>>,
                                control_id |-> NoId])

\* resolve up to the return of Prover::new_resolve
Resolve(cond, assum) ==
    /\ pc = "Idle"
    /\ op' = "resolve" /\ a' = cond /\ b' = assum
    /\ LET rc == ResolvedClaim(cond)
       IN  /\ expected' = rc.claim
           /\ IF rc.st = "ok" THEN Constructed(NewResolve(cond, assum))
              ELSE Constructed([st |-> rc.st, err |-> rc.err, tape |-> <<>>,
                                control_id |-> NoId])

\* identity_p254 up to the return of Prover::new_identity
Identity(ra) ==
    /\ pc = "Idle"
    /\ op' = "identity" /\ a' = ra /\ b' = None
    /\ expected' = None
    /\ \E program_id \in ZkrIdentityBuilds("poseidon_254") :
          Constructed(NewIdentity(ra, program_id))

\* digests given to test_recursion_circuit
TestDigests == {<<"d", 1>>, <<"d", 2>>}

\* (test builds) test_recursion_circuit up to the return of
\* Prover::new_test_recursion_circuit
TestRecursionCircuit(digest1, digest2) ==
    /\ pc = "Idle"
    /\ op' = "test" /\ a' = [digest |-> digest1] /\ b' = [digest |-> digest2]
    /\ expected' = None
    /\ Constructed(NewTestRecursionCircuit(<<digest1, digest2>>, SuccinctHashfn))

(***************************************************************************)
(* The opaque run of the recursion program and the steps after it.         *)
(***************************************************************************)
\* the claim an honest program writes for the inputs on the tape
HonestClaim ==
    CASE op = "lift"     -> a.claim
      [] op = "join"     -> JoinClaim(a.claim.v, b.claim.v)
      [] op = "resolve"  -> expected
      [] op = "identity" -> a.claim.v

\* a claim about a state outside the session
Tampered(c) == [c EXCEPT !.post = Value(NSeg + 1)]

\* output streams the program may produce
OutStreams ==
    {Encode(HonestClaim), Encode(Tampered(HonestClaim)),
     Encode(IF op = "lift" THEN a.claim ELSE a.claim.v),
     SubSeq(Encode(HonestClaim), 1, ClaimWords - 1)}

\* the seal proves the run of the program over the input seals
SealOf(program, ra, rb) ==
    IF rb = None THEN <<"seal", program, ra.seal>> ELSE <<"seal", program, ra.seal, rb.seal>>

\* the claim digest the test program computes from its two input digests
TestClaimDigest(digest1, digest2) == <<"claim_of", digest1, digest2>>

\* the test program writes digest1 and a claim digest to the output globals,
\* which are the first words of the seal
TestSeals ==
    {<<"seal", "test", a.digest, d>> :
        d \in {TestClaimDigest(a.digest, b.digest), TestClaimDigest(b.digest, a.digest),
               <<"malformed">>}}

\* the receipts a run of the recursion prover may return
RunReceipts ==
    IF op = "test" THEN {[seal |-> s, output |-> <<>>] : s \in TestSeals}
    ELSE {[seal |-> SealOf(op, a, b), output |-> out] : out \in OutStreams}

\* a run that is tried once more after an execution fault
RunRetried ==
    /\ pc = "TapeBuilt" \/ (pc = "Failed" /\ err = "ExecutionFault" /\ runs < 2)
    /\ runs' = runs + 1
    /\ \/ /\ pc' = "Failed" /\ err' = "ExecutionFault"
          /\ UNCHANGED rcpt
       \/ /\ \E r \in RunReceipts : rcpt' = r
          /\ pc' = "Executed"
          /\ err' = "none"
    /\ UNCHANGED <<op, a, b, tape, control_id, expected, decoded, merged, result, work, next,
                   app, provers>>

\* prover.prover.run()
Run ==
    /\ pc = "TapeBuilt"
    /\ runs' = runs + 1
    /\ \/ /\ pc' = "Failed" /\ err' = "ExecutionFault"
          /\ UNCHANGED rcpt
       \/ /\ \E r \in RunReceipts : rcpt' = r
          /\ pc' = "Executed"
          /\ UNCHANGED err
    /\ UNCHANGED <<op, a, b, tape, control_id, expected, decoded, merged, result, work, next, app, provers>>

\* join builds ab_claim from the two claims, then ReceiptClaim::decode of the output;
\* test_recursion_circuit reads the claim digest from the seal (read_sha_halfs)
DecodeStep ==
    /\ pc = "Executed"
    /\ IF op = "join" /\ (~IsValue(a.claim) \/ ~IsValue(b.claim))
       THEN /\ pc' = "Failed" /\ err' = "PrunedFieldError"
            /\ UNCHANGED <<expected, decoded>>
       ELSE IF op = "test"
       THEN /\ UNCHANGED expected
            /\ IF rcpt.seal[4] # <<"malformed">>
               THEN /\ decoded' = [digest |-> rcpt.seal[4]]
                    /\ pc' = "Decoded"
                    /\ UNCHANGED err
               ELSE /\ pc' = "Failed" /\ err' = "DecodeError"
                    /\ UNCHANGED decoded
       ELSE /\ expected' = IF op = "join" THEN JoinClaim(a.claim.v, b.claim.v) ELSE expected
            /\ IF DecodeOK(rcpt.output)
               THEN /\ decoded' = Decode(rcpt.output)
                    /\ pc' = "Decoded"
                    /\ UNCHANGED err
               ELSE /\ pc' = "Failed" /\ err' = "DecodeError"
                    /\ UNCHANGED decoded
    /\ UNCHANGED <<op, a, b, tape, control_id, rcpt, merged, result, runs, work, next, app, provers>>

\* identity_p254 without .with_hashfn("poseidon_254")
OptsHashfnSuccinct == SuccinctHashfn

\* opts of the operation
OptsHashfn == IF op = "identity" THEN "poseidon_254" ELSE SuccinctHashfn

OptsControlIds ==
    CASE op = "identity" -> <<BN254_IDENTITY_CONTROL_ID>>
      [] op = "test"     -> <<ZkrTestRecursionCircuit("poseidon2")>>
      [] OTHER           -> AllowedIds

\* identity_p254 accepting the decoded claim without merging it with a.claim
MergeOKIdentityUnchecked ==
    CASE op = "lift"     -> ClaimMergeOK(decoded, a.claim)
      [] op = "join"     -> ClaimMergeOK(decoded, expected)
      [] op = "resolve"  -> ClaimMergeOK(decoded, expected)
      [] op = "identity" -> TRUE

\* lift accepting the decoded claim without merging it with the segment's claim
MergeOKLiftUnchecked ==
    CASE op = "lift"     -> TRUE
      [] op = "join"     -> ClaimMergeOK(decoded, expected)
      [] op = "resolve"  -> ClaimMergeOK(decoded, expected)
      [] op = "identity" -> MPMergeOK(Value(decoded), a.claim)

\* join accepting the decoded claim without merging it with ab_claim
MergeOKJoinUnchecked ==
    CASE op = "lift"     -> ClaimMergeOK(decoded, a.claim)
      [] op = "join"     -> TRUE
      [] op = "resolve"  -> ClaimMergeOK(decoded, expected)
      [] op = "identity" -> MPMergeOK(Value(decoded), a.claim)

\* claim_decoded.merge(..) of the four operations
MergeOK ==
    CASE op = "lift"     -> ClaimMergeOK(decoded, a.claim)
      [] op = "join"     -> ClaimMergeOK(decoded, expected)
      [] op = "resolve"  -> ClaimMergeOK(decoded, expected)
      [] op = "identity" -> MPMergeOK(Value(decoded), a.claim)

\* a receipt that keeps only the digest of the merged claim
MergedPruned ==
    CASE op = "test" -> Pruned(decoded.digest)
      [] OTHER       -> Pruned(ClaimDigest(decoded))

Merged ==
    CASE op = "identity" -> MPMerge(Value(decoded), a.claim)
      [] op = "test"     -> Pruned(decoded.digest)
      [] OTHER           -> Value(decoded)

\* inclusion-proof lookup for the program's control id and the merge;
\* test_recursion_circuit has the lookup only
Verify ==
    /\ pc = "Decoded"
    /\ LET proofOK == IsMember(OptsControlIds, control_id)
       IN  IF proofOK /\ (op = "test" \/ MergeOK)
           THEN /\ pc' = "Verified" /\ merged' = Merged
                /\ UNCHANGED err
           ELSE /\ pc' = "Failed"
                /\ err' = IF op = "identity"
                          THEN (IF ~MergeOK THEN "ClaimMergeError" ELSE "InclusionProofError")
                          ELSE (IF ~proofOK THEN "InclusionProofError" ELSE "ClaimMergeError")
                /\ UNCHANGED merged
    /\ UNCHANGED <<op, a, b, tape, control_id, expected, rcpt, decoded, result, runs, work, next, app, provers>>

\* a receipt of join or resolve handing on the verifier parameters of its first input
EmitInputParams ==
    /\ pc = "Verified"
    /\ LET control_inclusion_proof == GetProof(OptsControlIds, control_id)
       IN  result' = [seal |-> rcpt.seal, hashfn |-> OptsHashfn, control_id |-> control_id,
                      control_inclusion_proof |-> control_inclusion_proof,
                      claim |-> merged,
                      verifier_parameters |->
                          IF op = "identity"
                          THEN ParamsDigest(ProofRoot(control_inclusion_proof, control_id),
                                            ControlRoot(a))
                          ELSE IF op = "test"
                          THEN ParamsDigest(ProofRoot(control_inclusion_proof, control_id),
                                            a.digest)
                          ELSE IF op \in {"join", "resolve"}
                          THEN a.verifier_parameters
                          ELSE DefaultParamsDigest]
    /\ pc' = "Receipt"
    /\ UNCHANGED <<op, a, b, err, tape, control_id, expected, rcpt, decoded, merged, runs,
                   work, next, app, provers>>

\* Ok(SuccinctReceipt { .. })
Emit ==
    /\ pc = "Verified"
    /\ LET control_inclusion_proof == GetProof(OptsControlIds, control_id)
       IN  result' = [seal |-> rcpt.seal, hashfn |-> OptsHashfn, control_id |-> control_id,
                      control_inclusion_proof |-> control_inclusion_proof,
                      claim |-> merged,
                      verifier_parameters |->
                          IF op = "identity"
                          THEN ParamsDigest(ProofRoot(control_inclusion_proof, control_id),
                                            ControlRoot(a))
                          ELSE IF op = "test"
                          THEN ParamsDigest(ProofRoot(control_inclusion_proof, control_id),
                                            a.digest)
                          ELSE DefaultParamsDigest]
    /\ pc' = "Receipt"
    /\ UNCHANGED <<op, a, b, err, tape, control_id, expected, rcpt, decoded, merged, runs,
                   work, next, app, provers>>

\* the operation's locals are dropped
Dropped ==
    /\ op' = "none" /\ a' = None /\ b' = None
    /\ pc' = "Idle" /\ err' = "none"
    /\ tape' = <<>> /\ control_id' = NoId
    /\ expected' = None /\ rcpt' = None /\ decoded' = None /\ merged' = None
    /\ result' = None /\ runs' = 0

\* the call has returned (a receipt or an error); the caller discards the result
Return ==
    /\ pc \in {"Receipt", "Failed"}
    /\ Dropped
    /\ UNCHANGED <<work, next, app, provers>>

Replace(seq, i, n, r) == SubSeq(seq, 1, i - 1) \o <<r>> \o SubSeq(seq, i + n, Len(seq))

\* the caller keeps the returned receipt in place of the receipts it was made from
Keep ==
    /\ pc = "Receipt"
    /\ \/ /\ op = "lift" /\ a.seal[2] = next
          /\ work' = Append(work, result) /\ next' = next + 1
       \/ /\ op = "join"
          /\ \E i \in 1..(Len(work) - 1) :
                /\ a = work[i] /\ b = work[i + 1]
                /\ work' = Replace(work, i, 2, result)
          /\ UNCHANGED next
       \/ /\ op \in {"resolve", "identity"}
          /\ \E i \in 1..Len(work) :
                /\ a = work[i]
                /\ work' = Replace(work, i, 1, result)
          /\ UNCHANGED next
    /\ Dropped
    /\ UNCHANGED <<app, provers>>

WorkSet == {work[i] : i \in 1..Len(work)}

\* any operation on any receipts
Next ==
    \/ pc = "Idle" /\ \E segment \in SegmentReceipts : Lift(segment)
    \/ pc = "Idle" /\ \E ra \in Receipts, rb \in Receipts : Join(ra, rb)
    \/ pc = "Idle" /\ \E cond \in Receipts, assum \in Receipts : Resolve(cond, assum)
    \/ pc = "Idle" /\ \E ra \in Receipts : Identity(ra)
    \/ pc = "Idle" /\ \E digest1 \in TestDigests, digest2 \in TestDigests :
                          TestRecursionCircuit(digest1, digest2)
    \/ Run
    \/ DecodeStep
    \/ Verify
    \/ Emit
    \/ Return

Spec == Init /\ [][Next]_vars

\* a caller compressing one session: lift its segments, join, resolve, identity_p254
SessionNext ==
    \/ pc = "Idle" /\ \E segment \in SessionSegments : Lift(segment)
    \/ pc = "Idle" /\ \E ra \in WorkSet, rb \in WorkSet : Join(ra, rb)
    \/ pc = "Idle" /\ \E cond \in WorkSet, assum \in {ProofOfX, ProofOfY} \cup WorkSet :
                          Resolve(cond, assum)
    \/ pc = "Idle" /\ \E ra \in WorkSet : Identity(ra)
    \/ Run
    \/ DecodeStep
    \/ Verify
    \/ Emit
    \/ Return
    \/ Keep

SessionSpec == Init /\ [][SessionNext]_vars

(***************************************************************************)
(* The functions of the claim algebra and of the registry, applied to      *)
(* arguments of their own: app holds one application and its outcome.      *)
(***************************************************************************)
\* bits of a digest and of a Merkle index that are told apart
DigestBits == 2
IndexBits == 4

\* longest control-id group
MaxGroup == 3

Ok(x) == [ok |-> TRUE, v |-> x]
Err(e) == [ok |-> FALSE, err |-> e]

\* materialized claims
ClaimValues == {m.v : m \in {g \in GivenClaims : IsValue(g)}}

\* claims given to merge, materialized or pruned
MergeArgs ==
    LET vs == {SpanClaim(i, j) : i \in 0..(NSeg - 1), j \in 1..NSeg} \cup {XClaim, YClaim}
    IN  {Value(v) : v \in vs} \cup {Pruned(ClaimDigest(v)) : v \in vs}

\* control ids to build groups from
IdPool == SubSeq(AllowedIds, 1, MaxGroup + 1)

PoolIds == {IdPool[i] : i \in 1..Len(IdPool)}

\* ordered groups of distinct control ids
Groups ==
    {g \in UNION {[1..n -> PoolIds] : n \in 1..MaxGroup} :
        \A i \in 1..Len(g), j \in 1..Len(g) : g[i] = g[j] => i = j}

Applications ==
    {[f |-> "codec", claim |-> c, cut |-> cut, out |-> None] : c \in ClaimValues, cut \in 0..1}
        \cup {[f |-> "merge", m1 |-> m1, m2 |-> m2, out |-> None] :
                  m1 \in MergeArgs, m2 \in MergeArgs}
        \cup {[f |-> "get_proof", ids |-> g, id |-> id, out |-> None] :
                  g \in Groups, id \in PoolIds}
        \cup {[f |-> "new_lift", segment |-> seg, ids |-> g, out |-> None] :
                  seg \in SegmentReceipts, g \in Groups}

\* the digest d with bit k flipped
FlipDigest(d, k) == <<"flipped", k, d>>

\* bit k of the index n
BitOf(n, k) == (n \div Pow2(k)) % 2

\* the index n with bit k flipped
FlipIndex(n, k) == IF BitOf(n, k) = 0 THEN n + Pow2(k) ELSE n - Pow2(k)

\* claim.encode(&mut words), then ReceiptClaim::decode of the first words
CodecApply ==
    /\ app # None /\ app.f = "codec" /\ app.out = None
    /\ LET words == SubSeq(Encode(app.claim), 1, ClaimWords - app.cut)
       IN  app' = [app EXCEPT !.out = IF DecodeOK(words) THEN Ok(Decode(words))
                                      ELSE Err("DecodeError")]
    /\ UNCHANGED <<opvars, provers>>

\* m1.merge(&m2)
MergeApply ==
    /\ app # None /\ app.f = "merge" /\ app.out = None
    /\ app' = [app EXCEPT !.out = IF MPMergeOK(app.m1, app.m2) THEN Ok(MPMerge(app.m1, app.m2))
                                   ELSE Err("ClaimMergeError")]
    /\ UNCHANGED <<opvars, provers>>

\* MerkleGroup::new(ids).get_proof(&id), and the root the proof recomputes for id
GetProofApply ==
    /\ app # None /\ app.f = "get_proof" /\ app.out = None
    /\ app' = [app EXCEPT !.out =
                   IF IsMember(app.ids, app.id)
                   THEN Ok([proof |-> GetProof(app.ids, app.id),
                            root  |-> ProofRoot(GetProof(app.ids, app.id), app.id)])
                   ELSE Err("InclusionProofError")]
    /\ UNCHANGED <<opvars, provers>>

\* one bit of the proof is flipped and the root recomputed
FlipApply ==
    /\ app # None /\ app.f = "get_proof" /\ app.out # None /\ app.out.ok
    /\ LET proof == app.out.v.proof
       IN  \E flipped \in
                 {[proof EXCEPT !.index = FlipIndex(@, k)] : k \in 0..(IndexBits - 1)}
                   \cup {[proof EXCEPT !.digests[i] = FlipDigest(@, k)] :
                             i \in 1..Len(proof.digests), k \in 0..(DigestBits - 1)} :
              app' = [f |-> "root", ids |-> app.ids, id |-> app.id, proof |-> proof,
                      out |-> Ok([proof |-> flipped, root |-> ProofRoot(flipped, app.id)])]
    /\ UNCHANGED <<opvars, provers>>

\* Prover::new_lift(&segment, opts) with opts.control_ids = ids
NewLiftApply ==
    /\ app # None /\ app.f = "new_lift" /\ app.out = None
    /\ app' = [app EXCEPT !.out = NewLiftOpts(app.segment, app.ids)]
    /\ UNCHANGED <<opvars, provers>>

FnInit ==
    /\ NoOperation
    /\ app \in {None} \cup Applications
    /\ provers = <<>>

\* the operations, and the functions on their own
FnNext ==
    \/ app = None /\ pc = "Idle" /\ \E segment \in SegmentReceipts : Lift(segment)
    \/ app = None /\ pc = "Idle" /\ \E ra \in Receipts, rb \in Receipts : Join(ra, rb)
    \/ app = None /\ pc = "Idle" /\ \E cond \in Receipts, assum \in Receipts :
                                        Resolve(cond, assum)
    \/ app = None /\ pc = "Idle" /\ \E ra \in Receipts : Identity(ra)
    \/ Run
    \/ DecodeStep
    \/ Verify
    \/ Emit
    \/ Return
    \/ CodecApply
    \/ MergeApply
    \/ GetProofApply
    \/ FlipApply
    \/ NewLiftApply

FnSpec == FnInit /\ [][FnNext]_vars

(***************************************************************************)
(* Operations running concurrently, each with a Prover of its own: the     *)
(* add_* calls of the constructors and the runs interleave.                *)
(***************************************************************************)
NProvers == 2

\* the operations that run concurrently
ConcJobs ==
    LET cnd == MkReceipt("poseidon2", AllowedIds, Value(CondClaim(<<Value(AX0)>>)))
    IN  {[op |-> "lift", a |-> MkSegment(0, "poseidon2", MIN_CYCLES_PO2), b |-> None],
         [op |-> "resolve", a |-> cnd, b |-> ProofOfX],
         [op |-> "identity", a |-> ProofOfX, b |-> None],
         [op |-> "identity", a |-> ProofOfY, b |-> None]}

\* the constructor the operation calls, run on its own
ConstructorOf(job) ==
    CASE job.op = "lift"     -> NewLift(job.a)
      [] job.op = "join"     -> NewJoin(job.a, job.b)
      [] job.op = "resolve"  ->
            LET rc == ResolvedClaim(job.a)
            IN  IF rc.st = "ok" THEN NewResolve(job.a, job.b)
                ELSE [st |-> rc.st, err |-> rc.err, tape |-> <<>>, control_id |-> NoId]
      [] job.op = "identity" -> NewIdentity(job.a, ZkrIdentity("poseidon_254"))

\* the claim the operation computes from its inputs
JobClaim(job) ==
    CASE job.op = "lift"     -> job.a.claim
      [] job.op = "join"     -> JoinClaim(job.a.claim.v, job.b.claim.v)
      [] job.op = "resolve"  -> ResolvedClaim(job.a).claim
      [] job.op = "identity" -> job.a.claim.v

\* what the run does: an execution fault, or an output stream
RunChoices == {"fault", "honest", "tampered", "short"}

\* the operation from prover.prover.run() to its return, for a Prover with
\* the given control id and tape
Finish(job, cid, t, choice) ==
    LET local == JobClaim(job)
        out   == CASE choice = "honest"   -> Encode(local)
                   [] choice = "tampered" -> Encode(Tampered(local))
                   [] OTHER               -> SubSeq(Encode(local), 1, ClaimWords - 1)
        ids   == IF job.op = "identity" THEN <<BN254_IDENTITY_CONTROL_ID>> ELSE AllowedIds
        fail(e) == [st |-> "Failed", err |-> e, result |-> None]
    IN  IF choice = "fault" THEN fail("ExecutionFault")
        ELSE IF ~DecodeOK(out) THEN fail("DecodeError")
        ELSE IF ~(IF job.op = "identity" THEN MPMergeOK(Value(Decode(out)), job.a.claim)
                  ELSE ClaimMergeOK(Decode(out), local))
        THEN fail("ClaimMergeError")
        ELSE IF ~IsMember(ids, cid) THEN fail("InclusionProofError")
        ELSE [st |-> "Receipt", err |-> "none",
              result |->
                  [seal |-> <<"seal", cid, t>>,
                   hashfn |-> IF job.op = "identity" THEN "poseidon_254" ELSE SuccinctHashfn,
                   control_id |-> cid,
                   control_inclusion_proof |-> GetProof(ids, cid),
                   claim |-> Value(Decode(out)),
                   verifier_parameters |->
                       IF job.op = "identity"
                       THEN ParamsDigest(ProofRoot(GetProof(ids, cid), cid),
                                         ControlRoot(job.a))
                       ELSE DefaultParamsDigest]]

\* Prover::new
NewProver(job) ==
    [job |-> job, pc |-> "New", calls |-> 0, tape |-> <<>>, control_id |-> NoId,
     err |-> "none", choice |-> "none", result |-> None]

\* a tape that all Provers share
AppendedShared(ps, p, item) == [ps EXCEPT ![1].tape = Append(@, item)]

\* self.prover.add_input(..): the item goes to the tape of the Prover itself
Appended(ps, p, item) == [ps EXCEPT ![p].tape = Append(@, item)]

\* the next add_input / add_input_digest call of the constructor of prover p
AddCall(p) ==
    /\ provers[p].pc = "New"
    /\ LET n == ConstructorOf(provers[p].job)
       IN  /\ provers[p].calls < Len(n.tape)
           /\ provers' = [Appended(provers, p, n.tape[provers[p].calls + 1])
                             EXCEPT ![p].calls = @ + 1]
    /\ UNCHANGED <<opvars, app>>

\* the constructor of prover p returns
NewReturns(p) ==
    /\ provers[p].pc = "New"
    /\ LET n == ConstructorOf(provers[p].job)
       IN  /\ provers[p].calls = Len(n.tape)
           /\ provers' = [provers EXCEPT ![p].pc = n.st, ![p].err = n.err,
                                          ![p].control_id = n.control_id]
    /\ UNCHANGED <<opvars, app>>

\* prover.prover.run() of prover p, and the operation up to its return
RunCall(p) ==
    /\ provers[p].pc = "TapeBuilt"
    /\ \E choice \in RunChoices :
          LET f == Finish(provers[p].job, provers[p].control_id, provers[p].tape, choice)
          IN  provers' = [provers EXCEPT ![p].pc = f.st, ![p].err = f.err,
                                         ![p].result = f.result, ![p].choice = choice]
    /\ UNCHANGED <<opvars, app>>

ConcInit ==
    /\ NoOperation
    /\ app = None
    /\ provers \in [1..NProvers -> {NewProver(job) : job \in ConcJobs}]

ConcNext ==
    \/ \E p \in 1..NProvers : AddCall(p)
    \/ \E p \in 1..NProvers : NewReturns(p)
    \/ \E p \in 1..NProvers : RunCall(p)

ConcSpec == ConcInit /\ [][ConcNext]_vars

(***************************************************************************)
(* Three receipts joined in either order: the caller holds a, b, c in work *)
(* and joins two neighbours at a time; app remembers the three.            *)
(***************************************************************************)
\* claims of the receipts that are joined
AssocClaims == {SpanClaim(i, i + 1) : i \in 0..(NSeg - 1)} \cup {XClaim, YClaim}

\* receipts with materialized claims, of either hashfn and either control-id group
AssocReceipts ==
    {MkReceipt(h, ids, Value(c)) : h \in {"poseidon2", "sha-256"}, ids \in {AllowedIds, AltIds},
                                   c \in AssocClaims}

\* a, b, c share one control root
AssocTriples ==
    {t \in [ra : AssocReceipts, rb : AssocReceipts, rc : AssocReceipts] :
        ControlRoot(t.ra) = ControlRoot(t.rb) /\ ControlRoot(t.rb) = ControlRoot(t.rc)}

AssocInit ==
    /\ op = "none" /\ a = None /\ b = None
    /\ pc = "Idle" /\ err = "none"
    /\ tape = <<>> /\ control_id = NoId
    /\ expected = None /\ rcpt = None /\ decoded = None /\ merged = None
    /\ result = None /\ runs = 0
    /\ next = 0 /\ provers = <<>>
    /\ \E t \in AssocTriples :
          /\ app = [f |-> "join3", ra |-> t.ra, rb |-> t.rb, rc |-> t.rc]
          /\ work = <<t.ra, t.rb, t.rc>>

\* the caller keeps the receipt of a join in place of the two it was made from
KeepJoined ==
    /\ pc = "Receipt" /\ op = "join"
    /\ \E i \in 1..(Len(work) - 1) :
          /\ a = work[i] /\ b = work[i + 1]
          /\ work' = Replace(work, i, 2, result)
    /\ Dropped
    /\ UNCHANGED <<next, app, provers>>

AssocNext ==
    \/ pc = "Idle" /\ \E i \in 1..(Len(work) - 1) : Join(work[i], work[i + 1])
    \/ Run
    \/ DecodeStep
    \/ Verify
    \/ Emit
    \/ Return
    \/ KeepJoined

AssocSpec == AssocInit /\ [][AssocNext]_vars

(***************************************************************************)
(* Properties.                                                             *)
(***************************************************************************)
\* provenance of a receipt, read off its seal: the first and last segment it covers
RECURSIVE FirstSeg(_)
FirstSeg(seal) ==
    IF seal[1] = "segseal" THEN seal[2]
    ELSE IF seal[2] = "given" THEN -1
    ELSE FirstSeg(seal[3])

RECURSIVE LastSeg(_)
LastSeg(seal) ==
    IF seal[1] = "segseal" THEN seal[2]
    ELSE IF seal[2] = "given" THEN -1
    ELSE IF seal[2] = "join" THEN LastSeg(seal[4])
    ELSE LastSeg(seal[3])

\* number of lift and join programs whose runs the seal proves
RECURSIVE Joins(_)
Joins(seal) ==
    IF seal[1] = "segseal" \/ seal[2] = "given" THEN 0
    ELSE IF seal[2] = "join" THEN 1 + Joins(seal[3]) + Joins(seal[4])
    ELSE Joins(seal[3])

\* number of assumptions resolved from the output the receipt carries
RECURSIVE Resolves(_)
Resolves(seal) ==
    IF seal[1] = "segseal" \/ seal[2] = "given" THEN 0
    ELSE IF seal[2] = "join" THEN Resolves(seal[4])
    ELSE IF seal[2] = "resolve" THEN 1 + Resolves(seal[3])
    ELSE Resolves(seal[3])

BothPoseidon2 == a.hashfn = "poseidon2" /\ b.hashfn = "poseidon2"

\* C1: a receipt returned by join(a, b) carries the sequential composition of the two
\* claims (pre and input of a; post, exit code and output of b), and a decoded claim that
\* does not merge with that composition makes join fail without a receipt.
C1_JoinExpectedClaim ==
    op = "join" =>
        /\ pc = "Receipt" =>
              /\ IsValue(result.claim)
              /\ result.claim.v.pre = a.claim.v.pre
              /\ result.claim.v.post = b.claim.v.post
              /\ result.claim.v.exit_code = b.claim.v.exit_code
              /\ result.claim.v.input = a.claim.v.input
              /\ result.claim.v.output = b.claim.v.output
        /\ (decoded # None /\ ~ClaimMergeOK(decoded,
                [pre |-> a.claim.v.pre, post |-> b.claim.v.post,
                 exit_code |-> b.claim.v.exit_code, input |-> a.claim.v.input,
                 output |-> b.claim.v.output])) =>
              /\ pc \in {"Decoded", "Failed"}
              /\ result = None

\* join has returned a receipt for two receipts that differ in every claim field
C1_Witness ==
    /\ op = "join" /\ pc = "Receipt"
    /\ a.claim.v.pre # b.claim.v.pre /\ a.claim.v.post # b.claim.v.post
    /\ a.claim.v.exit_code # b.claim.v.exit_code /\ a.claim.v.output # b.claim.v.output

\* C2: in a session of adjacent segments (segment i runs from state i to state i + 1),
\* every receipt obtained by lifting the segments and joining neighbours in session order
\* has pre equal to the pre state of its first segment and post equal to the post state of
\* its last; once all segments are joined the claim runs from state 0 to state NSeg.
C2_SessionJoin ==
    \A i \in 1..Len(work) :
        /\ IsValue(work[i].claim)
        /\ work[i].claim.v.pre = Value(FirstSeg(work[i].seal))
        /\ work[i].claim.v.post = Value(LastSeg(work[i].seal) + 1)
        /\ (i > 1 => FirstSeg(work[i].seal) = LastSeg(work[i - 1].seal) + 1)
        /\ (i = 1 => FirstSeg(work[i].seal) = 0)
        /\ (i = Len(work) => LastSeg(work[i].seal) + 1 = next)

\* all segments of the session are joined into one receipt
C2_Witness ==
    /\ Len(work) = 1 /\ next = NSeg
    /\ Joins(work[1].seal) = NSeg - 1
    /\ work[1].claim.v.pre = Value(0) /\ work[1].claim.v.post = Value(NSeg)

\* C3 as stated: join fails with the root-mismatch error whenever the two control roots
\* differ; when they are equal the check passes and the root is the first digest on the tape.
C3_RootMismatchAlways ==
    op = "join" =>
        IF ControlRoot(a) # ControlRoot(b)
        THEN pc = "Failed" /\ err = "RootMismatch" /\ result = None
        ELSE /\ err # "RootMismatch"
             /\ (tape # <<>> => tape[1] = <<"digest", "Poseidon2", ControlRoot(a)>>)

\* C3 amended: when both receipts have hashfn poseidon2 (the hashfn checks are made first),
\* join fails with the root-mismatch error and no receipt whenever the two control roots
\* differ; when they are equal the check passes and the root is the first digest on the tape.
C3_RootMismatch ==
    (op = "join" /\ BothPoseidon2) =>
        IF ControlRoot(a) # ControlRoot(b)
        THEN pc = "Failed" /\ err = "RootMismatch" /\ result = None
        ELSE /\ err # "RootMismatch"
             /\ tape # <<>>
             /\ tape[1] = <<"digest", "Poseidon2", ControlRoot(a)>>
             /\ tape[1] = <<"digest", "Poseidon2", ControlRoot(b)>>

\* join has refused two poseidon2 receipts with materialized claims and different roots
C3_Witness ==
    /\ op = "join" /\ BothPoseidon2
    /\ IsValue(a.claim) /\ IsValue(b.claim)
    /\ ControlRoot(a) # ControlRoot(b)
    /\ pc = "Failed" /\ err = "RootMismatch" /\ tape = <<>>

\* the conditional receipt's claim, output and assumptions are materialized and the list
\* has a first element
HasHead(cond) ==
    /\ IsValue(cond.claim)
    /\ IsValue(cond.claim.v.output)
    /\ cond.claim.v.output.v.some
    /\ IsValue(cond.claim.v.output.v.o.assumptions)
    /\ Len(cond.claim.v.output.v.o.assumptions.v) >= 1

AssumptionsOf(cond) == cond.claim.v.output.v.o.assumptions.v

BadHashfn ==
    \/ op \in {"lift", "identity"} /\ a.hashfn # "poseidon2"
    \/ op \in {"join", "resolve"} /\ ~BothPoseidon2

\* C4 as stated: every operation rejects an input receipt whose hashfn is not poseidon2
\* with a configuration error and returns no receipt.
C4_HashfnAlwaysConfigurationError ==
    BadHashfn => pc = "Failed" /\ err = "ConfigurationError" /\ result = None

\* C4 amended: no operation returns a receipt for an input receipt whose hashfn is not
\* poseidon2; lift, join and identity_p254 fail with a configuration error, and resolve
\* fails with a configuration error when the conditional's claim, output and assumptions
\* list are materialized and the list is not empty (resolve builds its resolved claim
\* before the hashfn checks).
C4_HashfnRejected ==
    BadHashfn =>
        /\ result = None
        /\ pc \in {"Failed", "Panicked"}
        /\ (op # "resolve" \/ HasHead(a)) => (pc = "Failed" /\ err = "ConfigurationError")

\* resolve has refused an assumption receipt of another hashfn that matches the head
C4_Witness ==
    /\ op = "resolve" /\ a.hashfn = "poseidon2" /\ b.hashfn # "poseidon2"
    /\ HasHead(a) /\ IsValue(Head(AssumptionsOf(a)))
    /\ Head(AssumptionsOf(a)).v.claim = MPClaimDigest(b.claim)
    /\ pc = "Failed" /\ err = "ConfigurationError"

\* C5 as stated: resolve on a conditional receipt whose materialized assumptions list is
\* empty returns the EmptyAssumptionError to its caller, and no receipt.
C5_EmptyAssumptionsError ==
    (/\ op = "resolve"
     /\ IsValue(a.claim) /\ IsValue(a.claim.v.output) /\ a.claim.v.output.v.some
     /\ IsValue(a.claim.v.output.v.o.assumptions)
     /\ a.claim.v.output.v.o.assumptions.v = <<>>) =>
        pc = "Failed" /\ err = "EmptyAssumptionError" /\ result = None

\* C6 as stated: resolve fails with the assumption-mismatch error whenever the claim digest
\* of the head assumption differs from the digest of the assumption receipt's claim.
C6_ClaimMismatchAlways ==
    (/\ op = "resolve" /\ HasHead(a) /\ IsValue(Head(AssumptionsOf(a)))
     /\ Head(AssumptionsOf(a)).v.claim # MPClaimDigest(b.claim)) =>
        pc = "Failed" /\ err = "AssumptionMismatchError" /\ result = None

\* C6 amended: when both receipts have hashfn poseidon2, resolve fails with the
\* assumption-mismatch error whenever the claim digest of the head assumption differs from
\* the digest of the assumption receipt's claim, be that claim a Value or Pruned.
C6_ClaimMismatch ==
    (/\ op = "resolve" /\ BothPoseidon2 /\ HasHead(a) /\ IsValue(Head(AssumptionsOf(a)))
     /\ Head(AssumptionsOf(a)).v.claim # MPClaimDigest(b.claim)) =>
        pc = "Failed" /\ err = "AssumptionMismatchError" /\ result = None

\* resolve has refused a receipt with a Pruned claim of another digest than the head's,
\* although its control root is the one the head asks for
C6_Witness ==
    /\ op = "resolve" /\ BothPoseidon2 /\ HasHead(a) /\ IsValue(Head(AssumptionsOf(a)))
    /\ ~IsValue(b.claim)
    /\ Head(AssumptionsOf(a)).v.claim # MPClaimDigest(b.claim)
    /\ Head(AssumptionsOf(a)).v.control_root = ControlRoot(b)
    /\ pc = "Failed" /\ err = "AssumptionMismatchError"

\* the control root the head assumption asks of the assumption receipt
RequiredRoot ==
    IF Head(AssumptionsOf(a)).v.control_root = ZERO THEN ControlRoot(a)
    ELSE Head(AssumptionsOf(a)).v.control_root

\* C7 as stated: the assumption receipt's control root must be head.control_root when
\* that is not zero and the conditional's control root when it is zero; otherwise resolve
\* fails with the assumption-mismatch error.
C7_RootMismatchAlways ==
    (op = "resolve" /\ HasHead(a) /\ IsValue(Head(AssumptionsOf(a)))) =>
        /\ ControlRoot(b) # RequiredRoot =>
              pc = "Failed" /\ err = "AssumptionMismatchError" /\ result = None
        /\ pc \notin {"Failed", "Panicked"} => ControlRoot(b) = RequiredRoot

\* C7 amended: when both receipts have hashfn poseidon2, the assumption receipt's control
\* root must be head.control_root when that is not zero and the conditional's control root
\* when it is zero; otherwise resolve fails with the assumption-mismatch error.  With a
\* non-zero head.control_root the conditional's own root plays no part.
C7_RootMismatch ==
    (op = "resolve" /\ HasHead(a) /\ IsValue(Head(AssumptionsOf(a)))) =>
        /\ (BothPoseidon2 /\ ControlRoot(b) # RequiredRoot) =>
              pc = "Failed" /\ err = "AssumptionMismatchError" /\ result = None
        /\ pc \notin {"Failed", "Panicked"} => ControlRoot(b) = RequiredRoot

\* resolve has accepted an assumption receipt whose root is the head's non-zero root and
\* not the conditional's
C7_Witness ==
    /\ op = "resolve" /\ pc = "Receipt"
    /\ Head(AssumptionsOf(a)).v.control_root # ZERO
    /\ ControlRoot(b) = Head(AssumptionsOf(a)).v.control_root
    /\ ControlRoot(b) # ControlRoot(a)

\* C8: the receipts of the session that carry its output have, after k resolves in list
\* order, the session's assumptions without the first k: [X, Y] becomes [Y], then [], and
\* MaxAssumptions resolves leave the empty list.
C8_FifoResolution ==
    \A i \in 1..Len(work) :
        (LastSeg(work[i].seal) + 1 = NSeg) =>
            /\ Resolves(work[i].seal) <= MaxAssumptions
            /\ work[i].claim.v.output.v.o.assumptions.v
                   = SubSeq(SessionList, 1 + Resolves(work[i].seal), MaxAssumptions)

\* every assumption of the session has been resolved
C8_Witness ==
    \E i \in 1..Len(work) :
        /\ Resolves(work[i].seal) = MaxAssumptions
        /\ work[i].claim.v.output.v.o.assumptions.v = <<>>

\* C9: the claim of a receipt returned by resolve equals the conditional's claim in pre,
\* post, exit code, input and journal, and its assumptions are the conditional's without
\* the first one, the others unchanged and in the same order.
C9_ResolveFrame ==
    (op = "resolve" /\ pc = "Receipt") =>
        /\ IsValue(result.claim)
        /\ result.claim.v.pre = a.claim.v.pre
        /\ result.claim.v.post = a.claim.v.post
        /\ result.claim.v.exit_code = a.claim.v.exit_code
        /\ result.claim.v.input = a.claim.v.input
        /\ result.claim.v.output.v.o.journal = a.claim.v.output.v.o.journal
        /\ LET old == AssumptionsOf(a)
               new == AssumptionsOf(result)
           IN  /\ Len(new) = Len(old) - 1
               /\ \A i \in 1..Len(new) : new[i] = old[i + 1]

\* resolve has returned a receipt for a conditional with two different assumptions
C9_Witness ==
    /\ op = "resolve" /\ pc = "Receipt"
    /\ Len(AssumptionsOf(a)) = 2
    /\ AssumptionsOf(a)[1] # AssumptionsOf(a)[2]
    /\ AssumptionsOf(result) = <<AssumptionsOf(a)[2]>>

\* C10: a receipt returned by identity_p254(a) has a claim with the digest of a.claim, and
\* a decoded claim that does not merge with a.claim makes identity_p254 fail.
C10_IdentityClaim ==
    op = "identity" =>
        /\ pc = "Receipt" => MPClaimDigest(result.claim) = MPClaimDigest(a.claim)
        /\ (decoded # None /\ ~MPMergeOK(Value(decoded), a.claim)) =>
              /\ pc \in {"Decoded", "Failed"}
              /\ result = None

\* identity_p254 has refused a decoded claim that differs from a.claim
C10_Witness ==
    /\ op = "identity" /\ pc = "Failed" /\ err = "ClaimMergeError"
    /\ decoded # None /\ ClaimDigest(decoded) # MPClaimDigest(a.claim)

\* C11: a receipt returned by identity_p254(a) has hashfn "poseidon_254", which
\* differs from the hashfn of a, has the control id BN254_IDENTITY_CONTROL_ID
\* (with any other control id of the identity program the operation yields no
\* receipt), and its verifier_parameters are the digest of the parameters
\* whose control_root is the root of the group of that one control id and
\* whose inner_control_root is a.control_root().
C11_IdentityReceipt ==
    op = "identity" =>
        /\ pc = "Receipt" =>
              /\ result.hashfn = "poseidon_254"
              /\ a.hashfn = "poseidon2"
              /\ result.hashfn # a.hashfn
              /\ result.control_id = BN254_IDENTITY_CONTROL_ID
              /\ result.verifier_parameters =
                     ParamsDigest(CalcRoot(<<BN254_IDENTITY_CONTROL_ID>>), ControlRoot(a))
        /\ control_id \notin {NoId, BN254_IDENTITY_CONTROL_ID} =>
              /\ pc \notin {"Verified", "Receipt"}
              /\ result = None
              /\ pc = "Failed" /\ runs = 1 /\ decoded # None /\ MergeOK
                     => err = "InclusionProofError"

C11_Witness ==
    /\ op = "identity" /\ pc = "Receipt"
    /\ result.control_id = BN254_IDENTITY_CONTROL_ID

\* identity_p254 rejecting a rebuilt identity program
C11_RebuiltRejected ==
    /\ op = "identity" /\ pc = "Failed" /\ err = "InclusionProofError"
    /\ control_id # BN254_IDENTITY_CONTROL_ID

\* the claim each operation can compute from its inputs alone
LocalClaim ==
    CASE op = "lift"     -> Value(a.claim)
      [] op = "join"     -> Value(JoinClaim(a.claim.v, b.claim.v))
      [] op = "resolve"  -> Value(ResolvedClaim(a).claim)
      [] op = "identity" -> a.claim
      [] op = "test"     -> Pruned(TestClaimDigest(a.digest, b.digest))

\* the returned receipt carries the program's claim, and that claim merged
\* with the local one
CrossChecked ==
    /\ merged # None /\ result.claim = merged
    /\ IF IsValue(merged)
       THEN /\ merged.v = decoded
            /\ MPMergeOK(merged, LocalClaim)
       ELSE merged.d = LocalClaim.d

\* C12 as stated: every operation, test_recursion_circuit included, returns a
\* receipt only if the claim of the program's output merged with the claim
\* computed locally from the inputs.
C12_EveryReceiptCrossChecked ==
    pc = "Receipt" => CrossChecked

\* C12: lift, join, resolve and identity_p254 return a receipt only if the claim
\* decoded from the program's output merged with the claim computed locally
\* from the inputs; test_recursion_circuit returns the claim digest it read
\* from the seal as it is, merged with nothing.
C12_CrossCheck ==
    pc = "Receipt" =>
        IF op = "test"
        THEN result.claim = Pruned(rcpt.seal[4])
        ELSE op \in {"lift", "join", "resolve", "identity"} /\ CrossChecked

C12_Witness ==
    /\ pc = "Receipt" /\ op = "test"
    /\ result.claim # LocalClaim

\* C13 as stated: an operation in which a step failed has returned the error
\* and nothing else; a receipt exists only when no step failed; run is invoked
\* at most once per operation, and not at all after a failure.
C13_NoPartialSuccess ==
    /\ runs <= 1
    /\ result # None => pc = "Receipt" /\ err = "none"
    /\ pc = "Receipt" => result # None /\ runs = 1
    /\ op # "none" /\ pc \notin {"TapeBuilt", "Executed", "Decoded", "Verified", "Receipt"}
          => /\ pc = "Failed"
             /\ err # "none"
             /\ result = None

StateOrder == <<"Idle", "TapeBuilt", "Executed", "Decoded", "Verified", "Receipt">>

\* a step of the operation in flight (not the return to the caller)
InOperation == pc' # "Idle"

\* C14: an operation moves through Idle, TapeBuilt, Executed, Decoded,
\* Verified, Receipt in this order or stops in a failure: the tape is written
\* only before run, the output is decoded only after a successful run, merged
\* only after a successful decode, a receipt is emitted only after a
\* successful merge, and after a failure the operation takes no step.
C14_StateOrder ==
    [][ /\ (pc' # pc /\ InOperation /\ pc' \notin {"Failed", "Panicked"})
              => \E i \in 1..(Len(StateOrder) - 1) :
                     pc = StateOrder[i] /\ pc' = StateOrder[i + 1]
        /\ (tape' # tape /\ InOperation) => (pc = "Idle" /\ runs = 0 /\ runs' = 0)
        /\ (runs' # runs /\ InOperation) => (pc = "TapeBuilt" /\ runs = 0 /\ runs' = 1)
        /\ (decoded' # decoded /\ InOperation)
              => (pc = "Executed" /\ runs = 1 /\ rcpt # None /\ pc' = "Decoded")
        /\ (merged' # merged /\ InOperation)
              => (pc = "Decoded" /\ decoded # None /\ pc' = "Verified")
        /\ (result' # result /\ InOperation)
              => (pc = "Verified" /\ merged # None /\ pc' = "Receipt")
        /\ pc \in {"Failed", "Panicked"} => ~InOperation /\ op' = "none" /\ result' = None
      ]_vars

C14_Witness ==
    /\ pc = "Receipt" /\ op = "lift"
    /\ runs = 1 /\ tape # <<>> /\ decoded # None /\ merged # None /\ result # None

\* the last item add_segment_receipt appended to the tape
LastItem == tape[Len(tape)]

C16_Merge ==
    /\ (app # None /\ app.f = "merge" /\ app.out # None)
          => /\ (~IsValue(app.m1) /\ IsValue(app.m2))
                   => (app.out.ok <=> app.m1.d = ClaimDigest(app.m2.v))
             /\ (IsValue(app.m1) /\ IsValue(app.m2))
                   => (app.out.ok <=> app.m1.v = app.m2.v)
             /\ ~app.out.ok => app.out.err = "ClaimMergeError"
    /\ (/\ op \in {"lift", "join", "resolve", "identity"}
        /\ pc \in {"Verified", "Receipt", "Failed"} /\ decoded # None
        /\ IF IsValue(LocalClaim) THEN decoded # LocalClaim.v
           ELSE ClaimDigest(decoded) # LocalClaim.d)
          => (pc = "Failed" /\ err = "ClaimMergeError" /\ result = None)
    /\ err = "ClaimMergeError" => (pc = "Failed" /\ result = None)

C16_Witness ==
    /\ app # None /\ app.f = "merge" /\ app.out # None
    /\ ~IsValue(app.m1) /\ IsValue(app.m2) /\ app.out.ok

\* C17: for a member id of a group, get_proof(id) returns a proof from which
\* MerkleProof::root(id) recomputes the group's calc_root; in a group of three
\* ids the proof of the second has index 1 and two sibling digests; get_proof
\* fails for an id that is not in the group.  The receipts of the operations
\* carry such a proof for their control id.
C17_InclusionProof ==
    /\ (app # None /\ app.f = "get_proof" /\ app.out # None)
          => IF \E i \in 1..Len(app.ids) : app.ids[i] = app.id
             THEN /\ app.out.ok
                  /\ app.out.v.root = CalcRoot(app.ids)
                  /\ app.ids[app.out.v.proof.index + 1] = app.id
                  /\ (Len(app.ids) = 3 /\ app.ids[2] = app.id)
                        => /\ app.out.v.proof.index = 1
                           /\ Len(app.out.v.proof.digests) = 2
             ELSE /\ ~app.out.ok
                  /\ app.out.err = "InclusionProofError"
    /\ (result # None /\ op \in {"lift", "join", "resolve"})
          => FoldRoot(result.control_id, result.control_inclusion_proof.index,
                      result.control_inclusion_proof.digests) = CalcRoot(AllowedIds)

C17_Witness ==
    /\ app # None /\ app.f = "get_proof" /\ app.out # None /\ app.out.ok
    /\ Len(app.ids) = 3 /\ app.ids[2] = app.id
    /\ Len(app.out.v.proof.digests) = 2

\* the proof of the second id of a group of three, with one bit flipped
SecondOfThree ==
    /\ app # None /\ app.f = "root"
    /\ Len(app.ids) = 3 /\ app.ids[2] = app.id

\* C18 as stated: whichever bit of a sibling digest or of the index is
\* flipped, the root recomputed from the proof differs from calc_root.
C18_AnyBitFlipChangesRoot ==
    SecondOfThree => app.out.v.root # CalcRoot(app.ids)

\* C18: a flipped bit of a sibling digest, or a flipped bit of the index among
\* the low bits, one per sibling digest, makes the recomputed root differ from
\* calc_root; a flipped higher bit of the index leaves the root as it was.
C18_BitFlip ==
    (app # None /\ app.f = "root")
        => LET proof   == app.proof
               flipped == app.out.v.proof
               low     == Pow2(Len(proof.digests))
           IN  IF flipped.index = proof.index \/ flipped.index % low # proof.index % low
               THEN app.out.v.root # CalcRoot(app.ids)
               ELSE app.out.v.root = CalcRoot(app.ids)

C18_Witness ==
    /\ SecondOfThree
    /\ app.out.v.proof.index = 0
    /\ app.out.v.root # CalcRoot(app.ids)

\* the receipts the caller holds
CallerReceipts == WorkSet \cup SessionSegments \cup {ProofOfX, ProofOfY}

\* C19: the receipts given to an operation are unchanged while it runs and
\* when it has returned a receipt or an error: they are still the caller's
\* receipts, and after resolve the conditional receipt still has the head
\* assumption that the returned receipt no longer has.
C19_InputsUnchanged ==
    /\ [](op # "none" =>
            /\ a \in CallerReceipts
            /\ op \in {"join", "resolve"} => b \in CallerReceipts
            /\ (op = "resolve" /\ pc = "Receipt") =>
                  /\ HasHead(a)
                  /\ AssumptionsOf(a) = <<Head(AssumptionsOf(a))>> \o AssumptionsOf(result))
    /\ [][(op # "none" /\ op' # "none") => (a' = a /\ b' = b /\ work' = work)]_vars

C19_Witness ==
    /\ op = "resolve" /\ pc = "Receipt"
    /\ a \in WorkSet
    /\ Len(AssumptionsOf(a)) = Len(AssumptionsOf(result)) + 1

\* the tape and the outcome of the operation when it runs alone
Alone(job, choice) ==
    LET n == ConstructorOf(job)
    IN  [tape    |-> n.tape,
         outcome |-> IF n.st = "TapeBuilt" THEN Finish(job, n.control_id, n.tape, choice)
                     ELSE [st |-> n.st, err |-> n.err, result |-> None]]

\* C20: operations running concurrently, each with a Prover of its own, build
\* under every interleaving of their add_* calls and runs the tape, and return
\* the receipt or the error, that they build and return when running alone; a
\* step of one operation leaves the Prover of every other operation as it was.
C20_Isolation ==
    /\ [](\A p \in DOMAIN provers :
            LET j     == provers[p]
                alone == Alone(j.job, j.choice)
            IN  /\ j.tape = SubSeq(alone.tape, 1, j.calls)
                /\ j.pc # "New" => j.tape = alone.tape
                /\ j.pc \in {"Receipt", "Failed", "Panicked"}
                      => [st |-> j.pc, err |-> j.err, result |-> j.result] = alone.outcome)
    /\ [][\A p \in DOMAIN provers, q \in DOMAIN provers :
              (p # q /\ provers'[p] # provers[p]) => provers'[q] = provers[q]]_vars

C20_Witness ==
    /\ provers # <<>>
    /\ provers[1].pc = "Receipt" /\ provers[2].pc = "Receipt"
    /\ provers[1].job.op = "lift" /\ provers[2].job.op = "resolve"
    /\ provers[1].tape # provers[2].tape

\* r passes the hashfn and materialized-claim preconditions of join, resolve
\* and identity_p254
Suitable(r) ==
    /\ r.hashfn = "poseidon2"
    /\ IsValue(r.claim)
    /\ NewJoin(r, r).st = "TapeBuilt"
    /\ NewIdentity(r, ZkrIdentity("poseidon_254")).st = "TapeBuilt"
    /\ NewResolve(r, r).err # "ConfigurationError"

\* C21: a receipt returned by lift, join or resolve has hashfn poseidon2 and a
\* materialized claim, so it passes the hashfn and materialized-claim
\* preconditions of join, resolve and identity_p254.
C21_SuitableAsInput ==
    (pc = "Receipt" /\ op \in {"lift", "join", "resolve"}) => Suitable(result)

C21_Witness ==
    /\ pc = "Receipt" /\ op = "join"
    /\ NewJoin(result, result).st = "TapeBuilt"

\* C22: a receipt returned by lift carries the decoded claim merged with the
\* segment's claim, so with the digest of the segment's claim; its control id
\* is that of the lift program selected for the segment's po2, and its
\* inclusion proof is the proof of that control id in the allowed group.  A
\* decoded claim that disagrees with the segment's claim makes lift fail.
C22_LiftReceipt ==
    op = "lift" =>
        /\ pc = "Receipt" =>
              /\ result.claim = Value(decoded)
              /\ MPClaimDigest(result.claim) = ClaimDigest(a.claim)
              /\ result.control_id = ZkrLift(SealPo2(a.seal), SuccinctHashfn)
              /\ result.control_inclusion_proof = GetProof(AllowedIds, result.control_id)
              /\ AllowedIds[result.control_inclusion_proof.index + 1] = result.control_id
        /\ (decoded # None /\ pc # "Decoded" /\ ClaimDigest(decoded) # ClaimDigest(a.claim))
              => (pc = "Failed" /\ err = "ClaimMergeError" /\ result = None)

C22_Witness ==
    /\ op = "lift" /\ pc = "Receipt"
    /\ SealPo2(a.seal) = MIN_CYCLES_PO2 + 1
    /\ result.control_id = ZkrLift(MIN_CYCLES_PO2 + 1, SuccinctHashfn)

SealAt(t, pos, seal, proof) ==
    /\ Len(t) >= pos + 1 + Len(proof.digests)
    /\ t[pos] = <<"words", seal>>
    /\ t[pos + 1] = <<"words", <<proof.index>>>>
    /\ \A i \in 1..Len(proof.digests) :
           t[pos + 1 + i] = <<"digest", "Poseidon2", proof.digests[i]>>

\* no digest item of t between from and to is the control id
NoControlId(t, from, to, id) ==
    \A i \in from..to : t[i][1] = "digest" => t[i][3] # id

\* t is the tape of lift for a segment and a group of allowed control ids
LiftTapeOrder(t, segment, ids) ==
    LET inner == POSEIDON2_CONTROL_IDS[SealPo2(segment.seal) - MIN_CYCLES_PO2 + 1]
        proof == GetProof(ids, inner)
    IN  /\ Len(t) = 3 + Len(proof.digests)
        /\ t[1] = <<"digest", "Poseidon2", CalcRoot(ids)>>
        /\ SealAt(t, 2, segment.seal, proof)
        /\ ids[proof.index + 1] = inner
        /\ NoControlId(t, 2, Len(t), inner)

\* C25: the lift input tape is, in order, the control root of the allowed group as a
\* Poseidon2 digest, the segment seal, one element holding the Merkle index of the inner
\* control id, and the sibling digests of its inclusion path in proof order as Poseidon2
\* digests; wherever add_seal is called it appends seal, index, siblings in that order and
\* never the control id.
C25_LiftTapeOrder ==
    /\ (app # None /\ app.f = "new_lift" /\ app.out # None /\ app.out.st = "TapeBuilt")
           => LiftTapeOrder(app.out.tape, app.segment, app.ids)
    /\ (op = "lift" /\ pc \notin {"Idle", "Failed", "Panicked"})
           => LiftTapeOrder(tape, a, AllowedIds)
    /\ (op \in {"join", "resolve", "identity"} /\ Len(tape) >= 2)
           => /\ SealAt(tape, 2, a.seal, a.control_inclusion_proof)
              /\ NoControlId(tape, 2, 3 + Len(a.control_inclusion_proof.digests), a.control_id)

C25_Witness ==
    /\ app # None /\ app.f = "new_lift" /\ app.out # None /\ app.out.st = "TapeBuilt"
    /\ Len(app.out.tape) = 5
    /\ app.out.tape[3] = <<"words", <<1>>>>

\* the head assumption of the conditional receipt of a resolve that built its tape
HeadOf(cond) == Head(AssumptionsOf(cond)).v

\* C26: add_assumption_receipt appends the seal, the Merkle index and the sibling digests of
\* the assumption receipt and then exactly one element, 1 when the control root of the head
\* assumption is the zero digest and 0 when it is not; nothing of the assumption receipt's
\* claim is written.
C26_AssumptionReceiptOnTape ==
    (op = "resolve" /\ pc \notin {"Idle", "Failed", "Panicked"}) =>
        LET na    == Len(a.control_inclusion_proof.digests)
            nb    == Len(b.control_inclusion_proof.digests)
            first == 5 + na
            flag  == first + 2 + nb
        IN  /\ Len(tape) = flag + 2
            /\ SealAt(tape, first, b.seal, b.control_inclusion_proof)
            /\ tape[flag] = <<"words", <<IF HeadOf(a).control_root = ZERO THEN 1 ELSE 0>>>>
            /\ tape[flag][2] = <<1>> <=> HeadOf(a).control_root = ZERO
            /\ tape[flag + 1][1] = "digest"
            /\ \A i \in first..flag :
                   /\ tape[i][1] = "digest" => tape[i][3] # MPClaimDigest(b.claim)
                   /\ (tape[i][1] = "words" /\ IsValue(b.claim))
                          => tape[i][2] # Encode(b.claim.v)

C26_Witness ==
    /\ op = "resolve" /\ pc = "Receipt"
    /\ HeadOf(a).control_root # ZERO
    /\ IsValue(b.claim)

\* the control root and the data of the conditional receipt, as resolve puts them on t
CondOnTape(t, cond) ==
    LET na == Len(cond.control_inclusion_proof.digests)
    IN  /\ Len(t) >= 4 + na
        /\ t[1] = <<"digest", "Poseidon2", ControlRoot(cond)>>
        /\ SealAt(t, 2, cond.seal, cond.control_inclusion_proof)
        /\ t[4 + na] = <<"words", Encode(cond.claim.v)>>

\* C27: the resolve input tape is, in order, the control root of the conditional receipt
\* (Poseidon2), its seal, index, sibling digests and encoded claim, the seal, index, sibling
\* digests and zero-root flag of the assumption receipt, the digest of the assumptions tail
\* (Sha256) and the digest of the journal (Sha256); when the claim-digest check or the
\* control-root check fails, the tape holds the control root and the conditional receipt's
\* data and nothing else.
C27_ResolveTapeOrder ==
    /\ (op = "resolve" /\ pc \notin {"Idle", "Failed", "Panicked"}) =>
           LET na    == Len(a.control_inclusion_proof.digests)
               nb    == Len(b.control_inclusion_proof.digests)
               first == 5 + na
               flag  == first + 2 + nb
               out   == a.claim.v.output.v.o
           IN  /\ Len(tape) = flag + 2
               /\ CondOnTape(tape, a)
               /\ SealAt(tape, first, b.seal, b.control_inclusion_proof)
               /\ tape[flag] = <<"words", <<IF HeadOf(a).control_root = ZERO THEN 1 ELSE 0>>>>
               /\ tape[flag + 1] = <<"digest", "Sha256", ListDigest(Tail(AssumptionsOf(a)))>>
               /\ tape[flag + 2] = <<"digest", "Sha256", MPBytesDigest(out.journal)>>
    /\ (op = "resolve" /\ pc = "Failed" /\ err = "AssumptionMismatchError") =>
           /\ CondOnTape(tape, a)
           /\ Len(tape) = 4 + Len(a.control_inclusion_proof.digests)
    /\ (op = "resolve" /\ pc \in {"Failed", "Panicked"} /\ runs = 0) =>
           Len(tape) <= 4 + Len(a.control_inclusion_proof.digests)

C27_Witness ==
    /\ op = "resolve" /\ pc = "Receipt"
    /\ Len(tape) = 15
    /\ Len(AssumptionsOf(a)) = 2

\* the conditional receipt of the resolve has the assumptions [X, Y], both materialized, and
\* X and Y name different claims
TwoAssumptions ==
    /\ op = "resolve" /\ HasHead(a)
    /\ Len(AssumptionsOf(a)) = 2
    /\ IsValue(AssumptionsOf(a)[1]) /\ IsValue(AssumptionsOf(a)[2])
    /\ AssumptionsOf(a)[1].v.claim # AssumptionsOf(a)[2].v.claim

\* the assumption receipt of the resolve proves the claim that Y names
ProvesSecond == MPClaimDigest(b.claim) = AssumptionsOf(a)[2].v.claim

\* a receipt came out of the resolve: it was the head that was proved, and the rest of the
\* list is what the receipt assumes
HeadResolved ==
    (op = "resolve" /\ pc = "Receipt") =>
        /\ HasHead(a) /\ IsValue(Head(AssumptionsOf(a)))
        /\ MPClaimDigest(b.claim) = HeadOf(a).claim
        /\ AssumptionsOf(result) = Tail(AssumptionsOf(a))

\* C28 as stated: with assumptions [X, Y] of different claim digests, resolve(cond,
\* proof_of_Y) fails with the assumption-mismatch error and yields no receipt; a receipt
\* whose list omits Y is obtained only after X has been resolved.
C28_OutOfOrderIsMismatch ==
    /\ (TwoAssumptions /\ ProvesSecond) =>
           (pc = "Failed" /\ err = "AssumptionMismatchError" /\ result = None)
    /\ HeadResolved

\* C28 amended: with assumptions [X, Y] of different claim digests and both receipts of
\* hashfn poseidon2, resolve(cond, proof_of_Y) fails with the assumption-mismatch error and
\* yields no receipt; with any other hashfn it fails too, and no resolve removes another
\* assumption than the head, so that a receipt whose list omits Y is obtained only after X
\* has been resolved.
C28_ListOrder ==
    /\ (TwoAssumptions /\ ProvesSecond) =>
           /\ pc = "Failed" /\ result = None
           /\ BothPoseidon2 => err = "AssumptionMismatchError"
    /\ HeadResolved

\* resolve has refused the proof of Y for the list [X, Y], although the receipt has the
\* control root that X asks for
C28_Witness ==
    /\ TwoAssumptions /\ ProvesSecond /\ BothPoseidon2
    /\ ControlRoot(b) = RequiredRoot
    /\ pc = "Failed" /\ err = "AssumptionMismatchError"

\* a field of the conditional receipt that resolve opens before the hashfn checks is pruned
CondPrunedEarly ==
    \/ ~IsValue(a.claim)
    \/ IsValue(a.claim) /\ ~IsValue(a.claim.v.output)
    \/ /\ IsValue(a.claim) /\ IsValue(a.claim.v.output) /\ a.claim.v.output.v.some
       /\ ~IsValue(a.claim.v.output.v.o.assumptions)

\* the head assumption of the conditional receipt is pruned
HeadPruned == HasHead(a) /\ ~IsValue(Head(AssumptionsOf(a)))

\* a field that the operation needs materialized is pruned
NeededFieldPruned ==
    \/ op = "join" /\ (~IsValue(a.claim) \/ ~IsValue(b.claim))
    \/ op = "identity" /\ ~IsValue(a.claim)
    \/ op = "resolve" /\ (CondPrunedEarly \/ HeadPruned)

\* the checks that the operation makes before it opens the pruned field pass
EarlierChecksPass ==
    \/ op = "join" /\ BothPoseidon2 /\ ControlRoot(a) = ControlRoot(b)
    \/ op = "identity" /\ a.hashfn = "poseidon2"
    \/ op = "resolve" /\ (CondPrunedEarly \/ (HeadPruned /\ BothPoseidon2))

\* C29 as stated: join fails with the pruned-field error if a.claim or b.claim is Pruned,
\* identity_p254 if a.claim is Pruned, resolve if the conditional's claim, output,
\* assumptions list or head assumption is Pruned.
C29_PrunedIsPrunedFieldError ==
    NeededFieldPruned => (pc = "Failed" /\ err = "PrunedFieldError" /\ result = None)

\* C29 amended: an operation given a receipt with a pruned field that it needs fails and
\* returns no receipt; the error is the pruned-field error when the checks made earlier
\* pass (the hashfn checks and the root comparison of join, the hashfn check of
\* identity_p254, the hashfn checks of resolve for a pruned head assumption).  The claim of
\* the assumption receipt is never opened: resolve reports a pruned field only for the
\* conditional receipt.
C29_PrunedFieldFails ==
    /\ NeededFieldPruned =>
           /\ pc = "Failed" /\ result = None /\ runs = 0
           /\ EarlierChecksPass => err = "PrunedFieldError"
    /\ (op = "resolve" /\ err = "PrunedFieldError") => (CondPrunedEarly \/ HeadPruned)

\* resolve has met a pruned head assumption after its hashfn checks, the claim of the
\* assumption receipt being pruned too
C29_Witness ==
    /\ op = "resolve" /\ HeadPruned /\ BothPoseidon2
    /\ ~IsValue(b.claim)
    /\ pc = "Failed" /\ err = "PrunedFieldError"

\* every check that the operation makes on its input receipts passes
InputChecksPass ==
    CASE op = "lift"     -> a.hashfn = "poseidon2"
      [] op = "join"     -> /\ BothPoseidon2
                            /\ ControlRoot(a) = ControlRoot(b)
                            /\ IsValue(a.claim) /\ IsValue(b.claim)
      [] op = "identity" -> a.hashfn = "poseidon2" /\ IsValue(a.claim)
      [] op = "resolve"  -> /\ BothPoseidon2
                            /\ HasHead(a) /\ IsValue(Head(AssumptionsOf(a)))
                            /\ HeadOf(a).claim = MPClaimDigest(b.claim)
                            /\ ControlRoot(b) = RequiredRoot
      [] OTHER           -> TRUE

\* the errors of the checks made on the input receipts
InputCheckErrors ==
    {"ConfigurationError", "RootMismatch", "PrunedFieldError", "EmptyOutputError",
     "EmptyAssumptionError", "AssumptionMismatchError"}

\* C30: the program is never run when a check on the input receipts fails: the hashfn
\* checks, the root comparison of join, every opening of a pruned field of the input
\* receipts, the empty-output and empty-assumptions checks and the claim and control-root
\* comparisons of resolve are decided before run is called, and no pruned-field error
\* occurs after the run, in join's construction of the expected claim in particular.
C30_ChecksBeforeRun ==
    /\ runs >= 1 => InputChecksPass
    /\ (pc \in {"Failed", "Panicked"} /\ ~InputChecksPass) => runs = 0
    /\ (err \in InputCheckErrors \/ pc = "Panicked") => runs = 0
    /\ (op = "join" /\ pc \in {"Executed", "Decoded", "Merged", "Receipt"})
           => (IsValue(a.claim) /\ IsValue(b.claim))

C30_Witness ==
    /\ op = "join" /\ runs = 1 /\ pc = "Decoded"
    /\ expected = JoinClaim(a.claim.v, b.claim.v)

\* the claim of a, b, c joined: from a to c
AssocClaim ==
    Value([pre       |-> app.ra.claim.v.pre,
           post      |-> app.rc.claim.v.post,
           exit_code |-> app.rc.claim.v.exit_code,
           input     |-> app.ra.claim.v.input,
           output    |-> app.rc.claim.v.output])

\* a join has failed although the join program ran and its output is the expected claim
JoinRefused ==
    /\ op = "join" /\ pc = "Failed"
    /\ err # "ExecutionFault"
    /\ rcpt = None \/ rcpt.output = Encode(JoinClaim(a.claim.v, b.claim.v))

\* the receipt that is left when both joins are done carries the claim from a to c
JoinedClaim == (app # None /\ app.f = "join3" /\ Len(work) = 1) => work[1].claim = AssocClaim

\* a, b, c are receipts that join accepts next to a receipt it has returned
AssocAccepted ==
    /\ app.ra.hashfn = "poseidon2" /\ app.rb.hashfn = "poseidon2" /\ app.rc.hashfn = "poseidon2"
    /\ ControlRoot(app.ra) = DefaultRoot

\* C31 as stated: for a, b, c of one control root and with materialized claims, both
\* join(join(a, b), c) and join(a, join(b, c)) succeed when the program outputs agree with
\* the expected claims, and return the claim from a to c.
C31_JoinAssociativeAnyRoot ==
    /\ (app # None /\ app.f = "join3") => ~JoinRefused
    /\ JoinedClaim

\* C31 amended: for a, b, c of hashfn poseidon2 whose one control root is the root of the
\* ProverOpts::succinct() group, and with materialized claims, both join(join(a, b), c) and
\* join(a, join(b, c)) succeed when the program outputs agree with the expected claims;
\* whenever both joins are done, in either order, the receipt carries pre = a.pre,
\* post = c.post, exit_code = c.exit_code, input = a.input, output = c.output.
C31_JoinAssociative ==
    /\ (app # None /\ app.f = "join3" /\ AssocAccepted) => ~JoinRefused
    /\ JoinedClaim

\* a was joined with the receipt of join(b, c), a and c differing in input and output
C31_Witness ==
    /\ app # None /\ app.f = "join3" /\ Len(work) = 1
    /\ work[1].seal = <<"seal", "join", app.ra.seal, <<"seal", "join", app.rb.seal, app.rc.seal>>>>
    /\ app.ra.claim.v.input # app.rc.claim.v.input
    /\ app.ra.claim.v.pre # app.rb.claim.v.pre
    /\ work[1].claim = AssocClaim

\* the control id of the program that the operation runs
ProgramId ==
    CASE op = "lift"    -> ZkrLift(SealPo2(a.seal), SuccinctHashfn)
      [] op = "join"    -> ZkrJoin(SuccinctHashfn)
      [] op = "resolve" -> ZkrResolve(SuccinctHashfn)

\* C32: the control_inclusion_proof of a receipt returned by lift, join or resolve is the
\* proof of the operation's own program control id in the ProverOpts::succinct() group, and
\* its verifier_parameters is the digest of the default parameters, whatever the control
\* roots and verifier_parameters of the input receipts; the control root that join and
\* resolve write to the input tape is the one of the input receipt.
C32_DefaultGroupProof ==
    /\ (pc = "Receipt" /\ op \in {"lift", "join", "resolve"}) =>
           /\ result.control_id = ProgramId
           /\ result.control_inclusion_proof = GetProof(AllowedIds, ProgramId)
           /\ ControlRoot(result) = CalcRoot(AllowedIds)
           /\ result.verifier_parameters = DefaultParamsDigest
    /\ (op \in {"join", "resolve"} /\ Len(tape) >= 1) =>
           tape[1] = <<"digest", "Poseidon2", ControlRoot(a)>>

\* a join of receipts of another control root and other verifier parameters has returned
C32_Witness ==
    /\ pc = "Receipt" /\ op = "join"
    /\ ControlRoot(a) # CalcRoot(AllowedIds)
    /\ a.verifier_parameters # DefaultParamsDigest
    /\ tape[1] = <<"digest", "Poseidon2", ControlRoot(a)>>
    /\ ControlRoot(result) = CalcRoot(AllowedIds)

\* r is a receipt as identity_p254 returns them
P254(r) == r # None /\ r.hashfn = "poseidon_254"

\* number of identity programs whose runs the seal proves
RECURSIVE Identities(_)
Identities(seal) ==
    IF seal[1] = "segseal" \/ seal[2] = "given" THEN 0
    ELSE IF seal[2] = "identity" THEN 1 + Identities(seal[3])
    ELSE IF seal[2] = "join" THEN Identities(seal[3]) + Identities(seal[4])
    ELSE Identities(seal[3])

\* the operation was given a receipt of identity_p254 and has ended without a receipt and
\* without a run
RefusedP254 == pc \in {"Failed", "Panicked"} /\ result = None /\ runs = 0

\* identity_p254 is the last program of every receipt's history, and its receipts are the
\* ones of hashfn poseidon_254
IdentityLast ==
    /\ pc = "Receipt" => (~P254(a) /\ ~P254(b))
    /\ (pc = "Receipt" /\ op = "identity") => P254(result)
    /\ \A i \in 1..Len(work) :
           /\ Identities(work[i].seal) <= 1
           /\ P254(work[i]) <=> Identities(work[i].seal) = 1
           /\ P254(work[i]) => work[i].seal[2] = "identity"

\* C33 as stated: a receipt of identity_p254 has hashfn poseidon_254; given to join, to
\* resolve or to identity_p254 again it always fails the hashfn precondition, and no
\* sequence of operations makes it an accepted input again.
C33_AlwaysHashfnError ==
    /\ (op \in {"join", "resolve", "identity"} /\ (P254(a) \/ P254(b))) =>
           (RefusedP254 /\ err = "ConfigurationError")
    /\ IdentityLast

\* C33 amended: a receipt of identity_p254 has hashfn poseidon_254; given to join, to
\* resolve or to identity_p254 again the operation returns no receipt and runs no program:
\* join and identity_p254 fail the hashfn precondition, and so does resolve unless the
\* opening of the conditional receipt's assumptions list, which comes first, has ended it.
\* No sequence of operations makes the receipt an accepted input again.
C33_IdentityIsLast ==
    /\ (op \in {"join", "resolve", "identity"} /\ (P254(a) \/ P254(b))) =>
           /\ RefusedP254
           /\ (op # "resolve" \/ HasHead(a)) => err = "ConfigurationError"
    /\ IdentityLast

\* resolve has refused, for its hashfn, a conditional receipt that identity_p254 returned
C33_Witness ==
    /\ op = "resolve" /\ P254(a) /\ HasHead(a)
    /\ Identities(a.seal) = 1
    /\ pc = "Failed" /\ err = "ConfigurationError"

\* C34: in resolve the two removals of the head assumption agree: whenever new_resolve
\* writes the digest of the assumptions tail, left by AssumptionsList resolve(head.digest()),
\* to the tape, it is the digest of the assumptions list of the expected claim, which
\* resolve made by dropping the first element of the list.
C34_TailDigestsAgree ==
    (op = "resolve" /\ pc \notin {"Idle", "Failed", "Panicked"}) =>
        /\ HasHead(a) /\ IsValue(Head(AssumptionsOf(a)))
        /\ tape[Len(tape) - 1]
               = <<"digest", "Sha256", ListDigest(expected.output.v.o.assumptions.v)>>
        /\ Len(expected.output.v.o.assumptions.v) = Len(AssumptionsOf(a)) - 1

\* the tail of a list of two different assumptions is on the tape
C34_Witness ==
    /\ op = "resolve" /\ pc = "TapeBuilt"
    /\ Len(AssumptionsOf(a)) = 2
    /\ AssumptionsOf(a)[1] # AssumptionsOf(a)[2]
    /\ tape[Len(tape) - 1] = <<"digest", "Sha256", ListDigest(<<AssumptionsOf(a)[2]>>)>>

=============================================================================
